---- MODULE Spec2Model ----
(***************************************************************************)
(* Verification model of the z-pinning G-code post-processor               *)
(* (slicer_post_processor): document parser and merger, pinning schedule   *)
(* generator, toolpath synthesizer and the generation pipeline.            *)
(*                                                                         *)
(* Each component has its own specification over the module's variables;   *)
(* the variables a specification does not use stay at their idle value.    *)
(***************************************************************************)
EXTENDS Integers, Sequences, FiniteSets, TLC

VARIABLES
    \* ---- GCodeModifier (gcode_modifier.py) ----
    gcode_lines,             \* self.gcode_lines: the stripped text lines of the input file
    parsed_gcode_lines,      \* self.parsed_gcode_lines: the parsed input document
    pin_gcode_dict,          \* pin_gcode_dict argument: layer -> block of parsed pin lines
    start_layer,             \* start_layer argument of insert_pin_gcode
    line_idx,                \* lines the loop of insert_pin_gcode consumed
    modified_gcode,          \* local list modified_gcode, as the call left it
    header_pin_inserted,     \* local flag, as the call left it
    object_printing_started, \* local flag, as the call left it
    last_layer_pinned,       \* local flag, as the call left it
    modified_gcode_lines,    \* self.modified_gcode_lines (serialized text)
    saved_file,              \* what save_gcode wrote (<<>> while nothing is written)
    layer_height,            \* self.layer_height, in units of 0.01 mm
    mpc,                     \* control state of insert_pin_gcode
    \* ---- dashboard parameters, GCodeCommandsComposer (gcode_snippets.py) ----
    cfg,                     \* the parameters a dashboard passes (lengths in units of 0.1 mm)
    staggered_schedule,      \* staggered_schedule: layer -> list of entries
    gcode_lines_per_layer,   \* gcode_lines_per_layer of compose_layer_gcode
    compose_layer,           \* loop variable `layer` of compose_layer_gcode
    error,                   \* the exception that ended the run ("" while none)
    cpc,                     \* control state of the dashboard's main()
    \* ---- direct calls of a method (arguments and what it returned) ----
    calls                    \* the calls made so far, in order

mergeVars == <<gcode_lines, parsed_gcode_lines, pin_gcode_dict, start_layer, line_idx, modified_gcode,
               header_pin_inserted, object_printing_started, last_layer_pinned,
               modified_gcode_lines, saved_file, layer_height, mpc>>

composeVars == <<cfg, staggered_schedule, gcode_lines_per_layer, compose_layer, error, cpc>>

vars == <<mergeVars, composeVars, calls>>

----------------------------------------------------------------------------
(* Bounds of the model *)
MaxLines == 2        \* longest input document (lines)
MaxLayer == 2        \* largest layer index of a line / schedule key
NConstants == 2      \* entries of the constants dict written into the header
MaxLineLen == 4      \* longest text line of the round-trip document (characters)
MaxPins == 3         \* most pins along the largest side
MaxTotal == 4        \* largest specimen height (layers)
MaxPhl == 3          \* largest pin height (layers)
MaxStart == 5        \* largest fixed start layer

----------------------------------------------------------------------------
(* Text.  A line is a sequence of characters (one-letter strings); each of *)
(* the marker substrings the merger searches for is one token of a line.   *)
(* A command is a sequence of characters (<<>> for None), params is the    *)
(* ordered dict as a sequence of <<key, value>> pairs.                     *)
TH  == "; thumbnail begin"
LC  == "move to next layer"
END == "end_gcode"
PO  == "; printing object"

\* A layer index is the float round(previous_z / layer_height, 2); the model
\* keeps it in hundredths (250 is layer 2.5).
NoLayer == 0 - 100   \* record without a 'layer' key (inserted separator / header)
IsKey(layer, dict) == layer % 100 = 0 /\ (layer \div 100) \in DOMAIN dict
KeyOf(layer) == layer \div 100

Contains(comment, marker) == \E k \in 1..Len(comment) : comment[k] = marker

\* A record of the document.  src and blk are bookkeeping of the model: where
\* the record comes from ("orig" input line, "blank" separator, "hdr" header
\* comment, "pin" line of a pin block) and, for header and pin records, which
\* header entry / which layer's block it belongs to.
Rec(src, command, params, comment, layer, blk) ==
    [src |-> src, command |-> command, params |-> params, comment |-> comment,
     layer |-> layer, blk |-> blk]

BlankRec == Rec("blank", <<>>, <<>>, <<>>, NoLayer, 0)

\* constant_comments: the title line and one comment line per constant.
ConstantComments ==
    <<Rec("hdr", <<>>, <<>>, <<"; HEADER PINNING PARAMETERS">>, NoLayer, 0)>> \o
    [k \in 1..NConstants |-> Rec("hdr", <<>>, <<>>, <<"; key: value">>, NoLayer, k)]

\* The header block as inserted: blank, constant_comments, blank.
HeaderBlock == <<BlankRec>> \o ConstantComments \o <<BlankRec>>

\* gcode_lines_per_layer[layer] as compose_layer_gcode builds it: the
\* "PINNING LAYER" comment, the commands, the "END OF PINNING LAYER" comment;
\* parse_gcode_lines gives every line of it layer 0 (no ;Z: marker inside).
PinBlock(layer) ==
    << Rec("pin", <<>>, <<>>, <<";--- PINNING LAYER">>, 0, layer),
       Rec("pin", <<"M", "8", "3">>, <<>>, <<"; relative extrusion mode">>, 0, layer),
       Rec("pin", <<>>, <<>>, <<";--- END OF PINNING LAYER">>, 0, layer) >>

----------------------------------------------------------------------------
(* Dashboard parameters.  Lengths are integers in units of 0.1 mm.         *)

\* The parameters of a dashboard (filled_dashboards/A00/A00_batch5.py), scaled
\* down: a cross-section of 10 x 4 mm, pins of 2 mm, layers of 0.1 mm.
BaseConfig ==
    [ largest_side |-> 100, smallest_side |-> 40, pin_dimension |-> 20,
      pin_shape |-> "circular", num_pins_largest_side |-> 1, num_pins_smallest_side |-> 1,
      pin_height_input |-> 2, layer_height |-> 1, least_edge_margin |-> 5,
      infill_percentage |-> 8, specimen_height_mm |-> 4,
      fixed_start_layers |-> <<>>,
      cone_radius |-> 3, cone_height |-> 1, cylinder_radius |-> 2, cylinder_height |-> 0,
      \* pin_rivet_parameters is given (not None); flow_ratio; number of parts
      pin_rivet_parameters |-> TRUE, flow_ratio |-> 1, parts_on_build_plate |-> 1,
      diving_mode |-> TRUE, spiral_mode |-> FALSE, nozzle_outer_diameter |-> 14,
      rib_inside_protrusion |-> 0, rib_clearance |-> 0,
      nozzle_sinking |-> 0, nozzle_sinking_wait_time |-> 0,
      nozzle_sinking_1st_layer |-> TRUE, nozzle_extrude_sunk |-> TRUE,
      wipe_enabled |-> TRUE, heated_pin |-> FALSE,
      variable_extrusion_enabled |-> FALSE, extrusion_skew_percentage |-> 100,
      geometrical_extrusion_enabled |-> TRUE, cone_blob |-> FALSE,
      no_pin_retraction |-> TRUE,
      \* pressure_E_length in units of 0.0001 mm (the precision of an E word)
      pressure_E_length |-> 0,
      \* the directory csv_outputs next to gcode_snippets.py exists
      csv_outputs |-> TRUE,
      \* line 347 compares the floats z and nozzle_sinking: when their exact
      \* values are equal the rounding of layer_height * layer - pin_height
      \* decides, and this says whether z came out above
      z_rounds_above |-> FALSE,
      \* line 584 compares pin_height with the float sum 2 * cone_height +
      \* cylinder_height: when their exact values are equal the rounding of
      \* the sum decides, and this says whether the sum came out below
      stack_rounds_below |-> FALSE,
      \* heated_pin is False or a temperature: heated_pin says that it is not
      \* False and this holds the temperature
      heated_pin_temperature |-> 0 ]

\* calculate_pin_height with pin_height_input_type = "layers"
PinHeightMm(c) == c.pin_height_input * c.layer_height

\* GCodeCommandsComposer.__init__ (lines 106-110)
TotalLayers(c) == c.specimen_height_mm \div c.layer_height
PinHeightLayers(c) ==
    IF PinHeightMm(c) > 0 /\ c.layer_height > 0 THEN PinHeightMm(c) \div c.layer_height ELSE 0

\* len(self.pin_positions): calculate_pin_positions loops over both sides
PinCount(c) == c.num_pins_largest_side * c.num_pins_smallest_side

Max(a, b) == IF a >= b THEN a ELSE b

\* The variables of the composer while a specification does not use them
ComposerIdle ==
    /\ cfg = BaseConfig
    /\ staggered_schedule = <<>>
    /\ gcode_lines_per_layer = <<>>
    /\ compose_layer = 0
    /\ error = ""
    /\ cpc = "idle"

\* The variables of the merger while a specification does not use them
MergerIdle ==
    /\ gcode_lines = <<>>
    /\ parsed_gcode_lines = <<>>
    /\ pin_gcode_dict = <<>>
    /\ start_layer = 0
    /\ line_idx = 0
    /\ modified_gcode = <<>>
    /\ header_pin_inserted = FALSE
    /\ object_printing_started = FALSE
    /\ last_layer_pinned = FALSE
    /\ modified_gcode_lines = <<>>
    /\ saved_file = <<>>
    /\ layer_height = 10
    /\ mpc = "idle"

----------------------------------------------------------------------------
(* _determine_pin_structure (lines 167-224): the sections of an occupancy  *)
(* of pin_height layers keyed at `layer`, as <<name, height>> pairs.       *)
DeterminePinStructure(c, pin_height, layer) ==
    LET cone_height == c.cone_height
        cylinder_height == c.cylinder_height * 2
        rem0 == pin_height * c.layer_height
        adjust_lower_cone == layer < PinHeightLayers(c)
        adjusted_cone_height == Max(rem0 - cone_height - cylinder_height, 0)
        adjust_cylinder == adjust_lower_cone /\ rem0 - cone_height - cylinder_height < 0
        adjusted_cylinder_height == Max(rem0 - cone_height, 0)
        \* lines 187-196
        lower == IF rem0 >= cone_height /\ ~adjust_lower_cone THEN cone_height
                 ELSE IF adjust_lower_cone THEN adjusted_cone_height
                 ELSE rem0
        rem1 == IF rem0 > 0 THEN rem0 - lower ELSE rem0
        \* lines 198-209
        cyl == IF rem1 > 0
               THEN IF rem1 >= cylinder_height /\ ~adjust_cylinder THEN cylinder_height
                    ELSE IF adjust_cylinder THEN adjusted_cylinder_height
                    ELSE rem1
               ELSE 0
        rem2 == IF rem1 > 0 THEN rem1 - cyl ELSE rem1
        \* lines 211-219
        upper == IF rem2 > 0 THEN (IF cone_height <= rem2 THEN cone_height ELSE rem2) ELSE 0
    IN  (IF rem0 > 0 THEN << <<"lower_cone", lower>> >> ELSE <<>>)
        \o << <<"cylinder", cyl>>, <<"upper_cone", upper>> >>

----------------------------------------------------------------------------
(* _generate_staggered_pinning_schedule (lines 119-165)                    *)

\* Mutant of StartLayerOf: the list is not walked cyclically
StartLayerOfFirstOnly(pin_idx, fixed) ==
    IF fixed # <<>> THEN fixed[1] ELSE 0

\* lines 140-144: the start layer of a pin
StartLayerOf(pin_idx, fixed) ==
    IF fixed # <<>> THEN fixed[(pin_idx % Len(fixed)) + 1] ELSE 0

\* range(start, stop, step) for step > 0
RECURSIVE Range(_, _, _)
Range(start, stop, step) ==
    IF start >= stop THEN <<>> ELSE <<start>> \o Range(start + step, stop, step)

\* lines 148-154: the height of the occupancy the loop makes at `layer`
PinHeightAt(layer, start, total, phl) ==
    IF layer = start THEN start
    ELSE IF layer >= total THEN phl - (layer - total)
    ELSE phl

\* Mutant of KeyAt: the last occupancy is not moved down to total_layers
KeyAtNoClip(layer, start, total) == layer

\* lines 148-152: the key the occupancy is filed under
KeyAt(layer, start, total) ==
    IF layer # start /\ layer >= total THEN total ELSE layer

\* lines 158-164: append to the list of the layer, made on first use
AddEntry(schedule, layer, entry) ==
    IF layer \in DOMAIN schedule
    THEN [schedule EXCEPT ![layer] = Append(@, entry)]
    ELSE [k \in DOMAIN schedule \cup {layer} |->
             IF k = layer THEN <<entry>> ELSE schedule[k]]

\* lines 147-164: the occupancies of one pin, in the order of the loop
RECURSIVE AddPinLayers(_, _, _, _, _)
AddPinLayers(schedule, layers, pin_idx, start, c) ==
    IF layers = <<>> THEN schedule
    ELSE LET pin_height == PinHeightAt(Head(layers), start, TotalLayers(c), PinHeightLayers(c))
             layer == KeyAt(Head(layers), start, TotalLayers(c))
             entry == [pin_index |-> pin_idx, height_layers |-> pin_height,
                       structure |-> DeterminePinStructure(c, pin_height, layer)]
         IN  AddPinLayers(AddEntry(schedule, layer, entry), Tail(layers), pin_idx, start, c)

\* lines 138-164: the loop over the pins from pin_idx on
RECURSIVE AddPins(_, _, _)
AddPins(schedule, pin_idx, c) ==
    IF pin_idx >= PinCount(c) THEN schedule
    ELSE LET start == StartLayerOf(pin_idx, c.fixed_start_layers)
             layers == Range(start, TotalLayers(c) + PinHeightLayers(c), PinHeightLayers(c))
         IN  AddPins(AddPinLayers(schedule, layers, pin_idx, start, c), pin_idx + 1, c)

\* The schedule the call returns (defined for pin_height_layers > 0)
StaggeredPinningSchedule(c) == AddPins(<<>>, 0, c)

\* The call of line 229
GenerateStaggeredPinningSchedule ==
    /\ cpc = "compose"
    /\ staggered_schedule' = StaggeredPinningSchedule(cfg)
    /\ compose_layer' = 1
    /\ cpc' = "layers"
    /\ UNCHANGED <<cfg, gcode_lines_per_layer, error>>
    /\ UNCHANGED mergeVars
    /\ UNCHANGED calls

\* The stagger configurations; stagger_params["fixed_start_layers"] is no
\* list, or up to two start layers
SchedConfigs ==
    { [BaseConfig EXCEPT !.num_pins_largest_side = n, !.pin_height_input = p,
                         !.specimen_height_mm = t * BaseConfig.layer_height,
                         !.fixed_start_layers = f]
      : n \in 1..MaxPins, p \in 1..MaxPhl, t \in 1..MaxTotal,
        f \in {<<>>} \cup {<<a>> : a \in 0..MaxStart} \cup {<<a, b>> : a, b \in 0..MaxStart} }

(* Specification of the schedule generator: one call on every stagger     *)
(* configuration within the bounds.                                        *)
InitSched ==
    /\ cfg \in SchedConfigs
    /\ staggered_schedule = <<>>
    /\ gcode_lines_per_layer = <<>>
    /\ compose_layer = 0
    /\ error = ""
    /\ cpc = "compose"
    /\ MergerIdle
    /\ calls = <<>>

NextSched == GenerateStaggeredPinningSchedule

SpecSched == InitSched /\ [][NextSched]_vars

\* The places <<layer, i>> of the schedule that hold an occupancy of pin p
EntriesOf(p) ==
    {li \in UNION {{<<layer, i>> : i \in 1..Len(staggered_schedule[layer])}
                    : layer \in DOMAIN staggered_schedule}
        : staggered_schedule[li[1]][li[2]].pin_index = p}

HeightAt(li) == staggered_schedule[li[1]][li[2]].height_layers

\* The layers an occupancy fills (lines 323-345): keyed at layer L with height
\* h, the nozzle dives to (L - h) * layer_height and fills up to L * layer_height.
Span(li) == (li[1] - HeightAt(li) + 1)..li[1]

RECURSIVE SumHeights(_)
SumHeights(S) ==
    IF S = {} THEN 0
    ELSE LET li == CHOOSE x \in S : TRUE IN HeightAt(li) + SumHeights(S \ {li})

----------------------------------------------------------------------------
(* insert_pin_gcode: what one iteration of the loop appends for `line`.    *)

\* Mutant of HeaderPart: the header_pin_inserted flag is not consulted
HeaderPartEveryMarker(line, inserted) ==
    IF Contains(line.comment, TH) THEN HeaderBlock ELSE <<>>

\* lines 112-116: the header, once, before the first "; thumbnail begin"
HeaderPart(line, inserted) ==
    IF ~inserted /\ Contains(line.comment, TH) THEN HeaderBlock ELSE <<>>

\* Mutant of LayerChangeGuard: start_layer is not compared
LayerChangeGuardNoStart(line, dict, start) ==
    IsKey(line.layer - 100, dict)

\* line 120: the test guarding the insertion at a layer-change line
LayerChangeGuard(line, dict, start) ==
    /\ IsKey(line.layer - 100, dict)
    /\ line.layer >= 100 * start

\* line 125: the test guarding the flush at the end-of-program marker
EndFlushGuard(line, pinned) ==
    /\ ~Contains(line.comment, LC)
    /\ Contains(line.comment, END)
    /\ ~pinned

\* line 128: the lookup pin_gcode_dict[line['layer']] raises KeyError
EndFlushRaises(line, dict, pinned) ==
    EndFlushGuard(line, pinned) /\ ~IsKey(line.layer, dict)

\* lines 119-130: the pin block part
PinPart(line, dict, start, pinned) ==
    IF Contains(line.comment, LC)
    THEN IF LayerChangeGuard(line, dict, start)
         THEN <<BlankRec, BlankRec>> \o dict[KeyOf(line.layer - 100)]
         ELSE <<>>
    ELSE IF EndFlushGuard(line, pinned)
         THEN <<BlankRec, BlankRec>> \o dict[KeyOf(line.layer)]
         ELSE <<>>

\* Mutant of LinePart: the end-of-program line is consumed by its flush
LinePartSkipsEnd(line) ==
    IF Contains(line.comment, END) /\ ~Contains(line.comment, LC) THEN <<>> ELSE <<line>>

\* line 133: the line itself
LinePart(line) == <<line>>

\* lines 125, 130: last_layer_pinned after the iteration
NextLastLayerPinned(line, pinned) == pinned \/ EndFlushGuard(line, pinned)

----------------------------------------------------------------------------
(* parse_gcode_lines                                                       *)
Digits == {"0", "1", "2", "3", "4", "5", "6", "7", "8", "9"}

IsCmdLetter(c) == c \in {"G", "M", "T"}
IsDigit(c) == c \in Digits
Spaces == {" "}
IsSpace(c) == c \in Spaces

\* End of the longest run of characters of the class S that starts at s[i]
\* (i - 1 when s[i] is not in S): a greedy [S]* of the pattern.
RunEnd(s, i, S) ==
    CHOOSE j \in (i - 1)..Len(s) :
        /\ \A k \in i..j : s[k] \in S
        /\ (j = Len(s) \/ s[j + 1] \notin S)

\* str.strip()
Strip(s) ==
    LET lead == RunEnd(s, 1, Spaces)
        lastNonSpace == IF \A k \in 1..Len(s) : IsSpace(s[k]) THEN 0
                        ELSE CHOOSE j \in 1..Len(s) :
                               ~IsSpace(s[j]) /\ \A k \in (j + 1)..Len(s) : IsSpace(s[k])
    IN  IF lastNonSpace = 0 THEN <<>> ELSE SubSeq(s, lead + 1, lastNonSpace)

\* str.split(): the maximal runs of non-blank characters
RECURSIVE Split(_)
Split(s) ==
    LET t == Strip(s)
    IN  IF t = <<>> THEN <<>>
        ELSE LET e == CHOOSE j \in 1..Len(t) :
                        /\ \A k \in 1..j : ~IsSpace(t[k])
                        /\ (j = Len(t) \/ IsSpace(t[j + 1]))
             IN  <<SubSeq(t, 1, e)>> \o Split(SubSeq(t, e + 1, Len(t)))

\* param_dict[key] = value over the pairs in order: a repeated key keeps its
\* first position and takes the last value (lines 39-42).
RECURSIVE ParamDict(_, _)
ParamDict(pairs, dict) ==
    IF pairs = <<>> THEN dict
    ELSE LET key == Head(pairs)[1]
             value == Tail(Head(pairs))
             upd == IF \E k \in 1..Len(dict) : dict[k][1] = key
                    THEN [k \in 1..Len(dict) |->
                             IF dict[k][1] = key THEN <<key, value>> ELSE dict[k]]
                    ELSE Append(dict, <<key, value>>)
         IN  ParamDict(Tail(pairs), upd)

\* gcode_pattern.match(line) succeeds (line 11): a command letter and a digit
PatternMatches(line) ==
    Len(line) >= 2 /\ IsCmdLetter(line[1]) /\ IsDigit(line[2])

\* lines 29-56: the record of one line, given the layer of the running Z
ParseLine(line, layer) ==
    IF PatternMatches(line)
    THEN LET ParamChars ==
                 {"X", "Y", "Z", "E", "F", "I", "J", "K", "R", ".", " ", "-"} \cup Digits
             cmdEnd == RunEnd(line, 2, Digits)
             parEnd == RunEnd(line, RunEnd(line, cmdEnd + 1, Spaces) + 1, ParamChars)
             params == Strip(SubSeq(line, RunEnd(line, cmdEnd + 1, Spaces) + 1, parEnd))
             comment == Strip(SubSeq(line, parEnd + 1, Len(line)))
         IN  Rec("orig", SubSeq(line, 1, cmdEnd), ParamDict(Split(params), <<>>),
                 comment, layer, 0)
    ELSE Rec("orig", <<>>, <<>>, Strip(line), layer, 0)

\* Value of a run of digit characters
RECURSIVE IntVal(_)
IntVal(ds) ==
    LET DigitVal(c) ==
            CHOOSE n \in 0..9 : <<"0", "1", "2", "3", "4", "5", "6", "7", "8", "9">>[n + 1] = c
    IN  IF ds = <<>> THEN 0
        ELSE 10 * IntVal(SubSeq(ds, 1, Len(ds) - 1)) + DigitVal(ds[Len(ds)])

\* z_pattern.search(line) (line 13): the places where ";Z:" and a number start
ZMatchAt(line, k) ==
    /\ k + 3 <= Len(line)
    /\ line[k] = ";" /\ line[k + 1] = "Z" /\ line[k + 2] = ":"
    /\ \/ IsDigit(line[k + 3])
       \/ line[k + 3] = "-" /\ k + 4 <= Len(line) /\ IsDigit(line[k + 4])

\* float(z_match.group(1)) in units of 0.01 mm: sign, integer digits and up to
\* two digits of the fraction
ZValue(line) ==
    LET k == CHOOSE k \in 1..Len(line) : ZMatchAt(line, k) /\ \A j \in 1..(k - 1) : ~ZMatchAt(line, j)
        neg == line[k + 3] = "-"
        i0 == IF neg THEN k + 4 ELSE k + 3
        iEnd == RunEnd(line, i0, Digits)
        hasFrac == iEnd + 1 <= Len(line) /\ line[iEnd + 1] = "."
        fEnd == IF hasFrac THEN RunEnd(line, iEnd + 2, Digits) ELSE iEnd
        frac == IF hasFrac THEN SubSeq(line, iEnd + 2, fEnd) ELSE <<>>
        frac2 == IF Len(frac) >= 2 THEN IntVal(SubSeq(frac, 1, 2))
                 ELSE IF Len(frac) = 1 THEN 10 * IntVal(frac) ELSE 0
        mag == 100 * IntVal(SubSeq(line, i0, iEnd)) + frac2
    IN  IF neg THEN 0 - mag ELSE mag

\* Nearest integer to a / b for b > 0
RoundDiv(a, b) == IF a >= 0 THEN (2 * a + b) \div (2 * b) ELSE 0 - ((2 * (0 - a) + b) \div (2 * b))

\* lines 15-58: the loop over the lines with its running previous_z; the
\* layer is round(previous_z / layer_height, 2), in hundredths (lines 48, 55)
RECURSIVE ParseFrom(_, _, _)
ParseFrom(lines, previous_z, lh) ==
    IF lines = <<>> THEN <<>>
    ELSE LET z == IF \E k \in 1..Len(Head(lines)) : ZMatchAt(Head(lines), k)
                  THEN ZValue(Head(lines)) ELSE previous_z
         IN  <<ParseLine(Head(lines), RoundDiv(100 * z, lh))>> \o ParseFrom(Tail(lines), z, lh)

ParseGcodeLines(lines, lh) == ParseFrom(lines, 0, lh)

----------------------------------------------------------------------------
(* _convert_dict_to_gcode (lines 140-166)                                  *)
RECURSIVE ParamsText(_)
ParamsText(params) ==
    IF params = <<>> THEN <<>>
    ELSE <<" ", Head(params)[1]>> \o Head(params)[2] \o ParamsText(Tail(params))

ConvertDictToGcode(rec) ==
    LET cmd == IF rec.command # <<>> THEN rec.command \o ParamsText(rec.params) ELSE <<>>
    IN  IF rec.comment # <<>>
        THEN (IF cmd # <<>> THEN cmd \o <<" ">> ELSE <<>>) \o rec.comment
        ELSE cmd

----------------------------------------------------------------------------
(* Inputs of the merger                                                    *)

RECURSIVE SeqsUpTo(_, _)
SeqsUpTo(S, n) ==
    IF n = 0 THEN {<<>>}
    ELSE LET shorter == SeqsUpTo(S, n - 1)
         IN  shorter \cup {Append(q, x) : q \in {r \in shorter : Len(r) = n - 1}, x \in S}

\* The documents of at most MaxLines parsed lines.  LineKinds are the kinds
\* of input line the merger tells apart: which markers the comment holds (a
\* comment may hold several), as <<command, comment>>.
MergeDocs ==
    LET LineKinds ==
            { <<<<"G", "1">>, <<>>>>,
              <<<<>>, <<TH>>>>,
              <<<<"G", "1">>, <<LC>>>>,
              <<<<>>, <<END>>>>,
              <<<<>>, <<TH, LC>>>>,
              <<<<>>, <<PO, LC, END>>>> }
        LayerValues == {100 * k : k \in 0..MaxLayer}
        OrigLines ==
            {Rec("orig", kd[1], <<>>, kd[2], ly, 0) : kd \in LineKinds, ly \in LayerValues}
    IN  SeqsUpTo(OrigLines, MaxLines)

\* gcode_lines_per_layer of compose_layer_gcode: a block for each scheduled layer
PinDicts == {[k \in K |-> PinBlock(k)] : K \in SUBSET (1..MaxLayer)}

----------------------------------------------------------------------------
(* GCodeModifier: actions                                                  *)

\* read_gcode_file (lines 68-82)
ReadGcodeFile ==
    /\ mpc = "read"
    /\ parsed_gcode_lines' = ParseGcodeLines(gcode_lines, layer_height)
    /\ mpc' = "merging"
    /\ UNCHANGED <<gcode_lines, pin_gcode_dict, start_layer, line_idx, modified_gcode,
                   header_pin_inserted, object_printing_started, last_layer_pinned,
                   modified_gcode_lines, saved_file, layer_height>>
    /\ UNCHANGED composeVars
    /\ UNCHANGED calls

\* The locals of insert_pin_gcode before the loop (lines 100-104)
MergeStart ==
    [out |-> <<>>, header_pin_inserted |-> FALSE, object_printing_started |-> FALSE,
     last_layer_pinned |-> FALSE, idx |-> 0, raised |-> FALSE]

\* One iteration of the loop (lines 106-133).  When the lookup of line 128
\* raises KeyError the iteration stops after the two separators of lines
\* 126-127 and the line is not consumed.
MergeStep(st, line, dict, start) ==
    LET hdr == HeaderPart(line, st.header_pin_inserted)
        common == [st EXCEPT
                     !.object_printing_started = (@ \/ Contains(line.comment, PO)),
                     !.header_pin_inserted = (@ \/ Contains(line.comment, TH))]
    IN  IF EndFlushRaises(line, dict, st.last_layer_pinned)
        THEN [common EXCEPT !.out = @ \o hdr \o <<BlankRec, BlankRec>>,
                            !.raised = TRUE]
        ELSE [common EXCEPT
                !.out = @ \o hdr \o PinPart(line, dict, start, st.last_layer_pinned)
                          \o LinePart(line),
                !.last_layer_pinned = NextLastLayerPinned(line, st.last_layer_pinned),
                !.idx = @ + 1]

\* The loop over parsed_gcode from the state st, until its end or a raise
RECURSIVE MergeLoop(_, _, _, _)
MergeLoop(st, lines, dict, start) ==
    IF st.raised \/ st.idx = Len(lines) THEN st
    ELSE CHOOSE end \in {MergeLoop(next, lines, dict, start) :
                            next \in {MergeStep(st, lines[st.idx + 1], dict, start)}} : TRUE

\* insert_pin_gcode (lines 84-138) with save_gcode (lines 201-203): merge,
\* serialize, write.  When the lookup of line 128 raises KeyError the call is
\* left there: nothing is serialized and save_gcode is not reached.
InsertPinGcode ==
    /\ mpc = "merging"
    /\ \E st \in {MergeLoop(MergeStart, parsed_gcode_lines, pin_gcode_dict, start_layer)} :
           /\ modified_gcode' = st.out
           /\ header_pin_inserted' = st.header_pin_inserted
           /\ object_printing_started' = st.object_printing_started
           /\ last_layer_pinned' = st.last_layer_pinned
           /\ line_idx' = st.idx
           /\ modified_gcode_lines' =
                  IF st.raised THEN modified_gcode_lines
                  ELSE [k \in 1..Len(st.out) |-> ConvertDictToGcode(st.out[k])]
           /\ mpc' = IF st.raised THEN "raised" ELSE "saved"
    /\ saved_file' = modified_gcode_lines'
    /\ UNCHANGED <<gcode_lines, parsed_gcode_lines, pin_gcode_dict, start_layer, layer_height>>
    /\ UNCHANGED composeVars
    /\ UNCHANGED calls

----------------------------------------------------------------------------
(* Specification of the merger: insert_pin_gcode on every parsed document, *)
(* schedule and start layer within the bounds.                             *)
InitMerge ==
    /\ gcode_lines = <<>>
    /\ parsed_gcode_lines \in MergeDocs
    /\ pin_gcode_dict \in PinDicts
    /\ start_layer \in 0..(MaxLayer + 1)
    /\ line_idx = 0
    /\ modified_gcode = <<>>
    /\ header_pin_inserted = FALSE
    /\ object_printing_started = FALSE
    /\ last_layer_pinned = FALSE
    /\ modified_gcode_lines = <<>>
    /\ saved_file = <<>>
    /\ layer_height = 10
    /\ mpc = "merging"
    /\ ComposerIdle
    /\ calls = <<>>

NextMerge == InsertPinGcode

SpecMerge == InitMerge /\ [][NextMerge]_vars

----------------------------------------------------------------------------
(* Specification of the round trip: read_gcode_file then insert_pin_gcode  *)
(* with an empty schedule, on every one-line document over a small         *)
(* alphabet of command letters, digits, parameter letters, blanks, the     *)
(* comment delimiter and a marker.                                         *)
\* The lines read_gcode_file keeps (line 80): stripped text
TextLines ==
    {l \in SeqsUpTo({"G", "1", "X", ".", " ", ";", LC}, MaxLineLen) : Strip(l) = l}

InitRoundTrip ==
    /\ gcode_lines \in {<<l>> : l \in TextLines}
    /\ parsed_gcode_lines = <<>>
    /\ pin_gcode_dict = <<>>
    /\ start_layer = 0
    /\ line_idx = 0
    /\ modified_gcode = <<>>
    /\ header_pin_inserted = FALSE
    /\ object_printing_started = FALSE
    /\ last_layer_pinned = FALSE
    /\ modified_gcode_lines = <<>>
    /\ saved_file = <<>>
    /\ layer_height = 10
    /\ mpc = "read"
    /\ ComposerIdle
    /\ calls = <<>>

NextRoundTrip == ReadGcodeFile \/ InsertPinGcode

SpecRoundTrip == InitRoundTrip /\ [][NextRoundTrip]_vars

\* No line of the input text holds one of the three markers of the merger
MarkerFree(lines) ==
    \A i \in 1..Len(lines) :
        ~Contains(lines[i], TH) /\ ~Contains(lines[i], LC) /\ ~Contains(lines[i], END)

----------------------------------------------------------------------------
(* Reading the output of the merger                                        *)

IsOrig(r) == r.src = "orig"

\* The records inserted at each original line, in order: those that stand
\* between the previous original line and it.  `cur` collects the inserted
\* records met since the last original line.
RECURSIVE ChunksFrom(_, _, _)
ChunksFrom(out, i, cur) ==
    IF i > Len(out) THEN <<>>
    ELSE IF IsOrig(out[i]) THEN <<cur>> \o ChunksFrom(out, i + 1, <<>>)
         ELSE ChunksFrom(out, i + 1, Append(cur, out[i]))

\* Chunks(out)[k]: the records inserted at the k-th original line
Chunks(out) == ChunksFrom(out, 1, <<>>)

HasMarker(k, marker) == Contains(parsed_gcode_lines[k].comment, marker)

\* The k-th line is the first one holding the header marker
FirstHeaderLine(k) == HasMarker(k, TH) /\ \A j \in 1..(k - 1) : ~HasMarker(j, TH)

\* The header block expected at line k
HeaderAt(k) == IF FirstHeaderLine(k) THEN HeaderBlock ELSE <<>>

\* The block with its two separators that a layer-change line at layer L gets
\* when the schedule has L-1 and L >= start_layer
ScheduledAt(k) ==
    LET L == parsed_gcode_lines[k].layer
    IN  IF IsKey(L - 100, pin_gcode_dict) /\ L >= 100 * start_layer
        THEN <<BlankRec, BlankRec>> \o PinBlock(KeyOf(L - 100))
        ELSE <<>>

\* Layers whose block (a record of it) occurs in a chunk
BlocksIn(chunk) == {chunk[i].blk : i \in {j \in 1..Len(chunk) : chunk[j].src = "pin"}}

HeaderTitles(out) == {i \in 1..Len(out) : out[i].src = "hdr" /\ out[i].blk = 0}

----------------------------------------------------------------------------
(* Extrusion volume model (gcode_snippets.py, lines 562-669).              *)
(*                                                                         *)
(* A volume V (in 0.001 mm^3) is kept as the integer                       *)
(* 12 * cone_height^2 * V / pi: along a cone the radii are multiples of    *)
(* 1 / cone_height.  An extrusion length is the volume over the            *)
(* cross-section of the filament, pi * (1.75 / 2)^2 mm^2, times            *)
(* flow_ratio; in units of 0.0001 mm, the precision of an E word, it is    *)
(* the fraction ELenNum / ELenDen.                                         *)

\* _calculate_truncated_cone_volume, the two radii given times cone_height
CalculateTruncatedConeVolume(smallerC, largerC, height) ==
    4 * height * (smallerC * smallerC + smallerC * largerC + largerC * largerC)

\* pin_volume is left unassigned (line 596): the return of line 603 raises
NoVolume == 0 - 1

\* _rivet_like_pin_extrusion_length, lines 563-596: the volume of the pin
RivetLikePinVolume(c, pin_height) ==
    LET cone_height == c.cone_height
        cylinder_height == c.cylinder_height * 2
        smallerC == c.cylinder_radius * cone_height
        largerC == c.cone_radius * cone_height
        slopeC == c.cone_radius - c.cylinder_radius
        cone_volume == CalculateTruncatedConeVolume(smallerC, largerC, cone_height)
        cylinder_volume == 12 * smallerC * smallerC * cylinder_height
    IN  IF pin_height <= cone_height
        THEN CalculateTruncatedConeVolume(smallerC, smallerC + slopeC * pin_height, pin_height)
        ELSE IF pin_height <= cone_height + cylinder_height
        THEN cone_volume + 12 * smallerC * smallerC * (pin_height - cone_height)
        ELSE IF pin_height < 2 * cone_height + cylinder_height
                \/ (pin_height = 2 * cone_height + cylinder_height /\ ~c.stack_rounds_below)
        THEN LET adjusted_cone_height == pin_height - (cone_height + cylinder_height)
             IN  cone_volume + cylinder_volume
                 + CalculateTruncatedConeVolume(smallerC, smallerC + slopeC * adjusted_cone_height,
                                                adjusted_cone_height)
        ELSE NoVolume

\* lines 598-603 and 662-667: the length of a volume as ELenNum / ELenDen
ELenNum(c, volume) == 160 * volume * c.flow_ratio
ELenDen(c) == 147 * c.cone_height * c.cone_height

\* lines 626-630: <<index, cumulative_height>> of the first section whose
\* cumulative height reaches relative_z; index 0 when the loop ends without
RECURSIVE SectionAt(_, _, _, _)
SectionAt(pin_structure, relative_z, i, cumulative_height) ==
    IF i > Len(pin_structure) THEN <<0, cumulative_height>>
    ELSE IF relative_z <= cumulative_height + pin_structure[i][2]
         THEN <<i, cumulative_height + pin_structure[i][2]>>
         ELSE SectionAt(pin_structure, relative_z, i + 1, cumulative_height + pin_structure[i][2])

\* lines 632-669: the volume of a step of step_height that ends at relative_z
\* inside current_section, and the blob flags; found is <<index, top>> of the
\* section
SectionStepInfo(c, step_height, relative_z, pin_structure, found, current_section) ==
    LET smallerC == c.cylinder_radius * c.cone_height
        largerC == c.cone_radius * c.cone_height
        slopeC == c.cone_radius - c.cylinder_radius
        lower_shift == c.cone_height - pin_structure[1][2]
        upper_shift == relative_z - pin_structure[1][2] - pin_structure[2][2]
        lowerC == IF current_section = "lower_cone"
                  THEN largerC - slopeC * (relative_z + lower_shift - step_height)
                  ELSE IF current_section = "cylinder" THEN smallerC
                  ELSE smallerC + slopeC * (upper_shift - step_height)
        upperC == IF current_section = "lower_cone"
                  THEN largerC - slopeC * (relative_z + lower_shift)
                  ELSE IF current_section = "cylinder" THEN smallerC
                  ELSE smallerC + slopeC * upper_shift
    IN  [ volume |-> 3 * (lowerC + upperC) * (lowerC + upperC) * step_height,
          blob |-> << current_section = "lower_cone",
                      current_section = "lower_cone" /\ relative_z = found[2] >> ]

\* _extrusion_length_per_step_blob_info: the volume of the step that ends at
\* current_z and the blob flags (heights in units of 0.1 mm).  Lines 626-630:
\* the name of the section found is None when the loop ends without one
ExtrusionLengthPerStepBlobInfo(c, step_height, current_z, pin_layer_z, pin_height, pin_structure) ==
    LET relative_z == current_z - pin_layer_z + pin_height + c.nozzle_sinking
    IN  CHOOSE info \in
            { SectionStepInfo(c, step_height, relative_z, pin_structure, found,
                              IF found[1] = 0 THEN "None" ELSE pin_structure[found[1]][1])
              : found \in {SectionAt(pin_structure, relative_z, 1, 0)} } : TRUE

----------------------------------------------------------------------------
(* Toolpath synthesizer: _generate_pin_gcode (lines 316-530).              *)
(*                                                                         *)
(* The three locals the function fixes at its top are taken as the         *)
(* constants they are: gcode_commands_per_layer = 1, smooth_depressurizing *)
(* = False, one_shot = True; the branches they switch off (lines 358-361,  *)
(* 411-415, 460-461, 470-472, 487-490) are not modelled.  The X and Y      *)
(* words of a line are not modelled.  Heights are whole numbers of units,  *)
(* so the int() truncations of lines 363, 385 and 394 are exact.           *)

\* A synthesized line: the template that wrote it, its Z word (<<>> when it
\* has none, else the value in units of 0.0025 mm) and its E word (<<>> when
\* it has none, else the value as printed with four decimals, in 0.0001 mm).
GLine(kind, z, e) == [kind |-> kind, z |-> z, e |-> e]
ZWord(z) == <<40 * z>>

RECURSIVE GCD(_, _)
GCD(a, b) == IF b = 0 THEN a ELSE GCD(b, a % b)

Abs(a) == IF a >= 0 THEN a ELSE 0 - a

\* lines 334-356: the lines ahead of the extrusion.  z is the height the
\* nozzle has dived to and sunk is the test of line 347.
Prelude(c, pin_layer_z, z, sunk) ==
    << GLine("pin_title", ZWord(pin_layer_z), <<>>),
       GLine("m117", <<>>, <<>>),
       GLine("move_to_xy", <<>>, <<>>) >>
    \o (IF c.diving_mode THEN <<GLine("drop_z", ZWord(z), <<>>)>> ELSE <<>>)
    \o (IF sunk
        THEN <<GLine("sinking_nozzle", ZWord(z - c.nozzle_sinking), <<>>)>>
             \o (IF c.nozzle_sinking_wait_time # 0 THEN <<GLine("sinking_wait", <<>>, <<>>)>> ELSE <<>>)
             \o (IF ~c.nozzle_extrude_sunk THEN <<GLine("lifting_nozzle", ZWord(z), <<>>)>> ELSE <<>>)
        ELSE <<>>)
    \o <<GLine("extruding_pin", <<>>, <<>>)>>

\* Mutant of StepLength: the even split whatever the skew
StepLengthEven(c, n, tot, step, info) ==
    IF c.geometrical_extrusion_enabled
    THEN <<ELenNum(c, info.volume), ELenDen(c)>>
    ELSE <<ELenNum(c, tot), ELenDen(c) * n>>

\* lines 391-408: the extrusion length of a step as <<numerator, denominator>>
\* in units of 0.0001 mm.  n is E_layers, tot the volume of the occupancy.
StepLength(c, n, tot, step, info) ==
    IF c.geometrical_extrusion_enabled
    THEN <<ELenNum(c, info.volume), ELenDen(c)>>
    ELSE IF c.variable_extrusion_enabled /\ n - 1 # 0
    THEN LET p == c.extrusion_skew_percentage
             sn == p * (n - 1) - (p - 100) * 2 * (step - 1)
             sd == 100 * (n - 1)
             g == GCD(Abs(sn), sd)
         IN  <<ELenNum(c, tot) * (sn \div g), ELenDen(c) * n * (sd \div g)>>
    ELSE <<ELenNum(c, tot), ELenDen(c) * n>>

\* lines 433-447: the negative length `remaining` (over den) is taken from
\* the lines before it, last first.  A line without an E word is dropped; the
\* comment "; EXTRUDING PIN" has a part that starts with E and is no number.
RECURSIVE Absorb(_, _, _)
Absorb(lines, remaining, den) ==
    IF lines = <<>> THEN [lines |-> <<>>, raised |-> ""]
    ELSE LET last_line == lines[Len(lines)]
             rest == SubSeq(lines, 1, Len(lines) - 1)
         IN  IF last_line.kind = "extruding_pin" THEN [lines |-> rest, raised |-> "ValueError_float"]
             ELSE IF last_line.e = <<>>
                  THEN CHOOSE end \in {Absorb(r, remaining, den) : r \in {rest}} : TRUE
             ELSE LET new_extrusion == last_line.e[1] * den + remaining
                  IN  IF new_extrusion > 0
                      THEN [lines |-> Append(rest, [last_line EXCEPT !.e = <<RoundDiv(new_extrusion, den)>>]),
                            raised |-> ""]
                      ELSE CHOOSE end \in {Absorb(r, x, den) : r \in {rest}, x \in {new_extrusion}} : TRUE

\* lines 410-455 of one pass: the line of the step with the length len of
\* the step, the absorption and the blob.  st holds gcode_lines,
\* E_length_geometrical (as a volume), blob_E_length (over ELenDen) and the
\* exception raised, if any.
ExtrusionStepLines(c, st, current_z, info, len, absorbed) ==
    LET \* lines 449-455 with the blob flags of the geometrical model
        blob_E_length == st.blob_E_length + len[1]
        popped == SubSeq(absorbed.lines, 1, Len(absorbed.lines) - 1)
        blobbed == IF info.blob[2]
                   THEN Append(popped, GLine("cone_blob", ZWord(current_z),
                                             <<RoundDiv(blob_E_length, len[2])>>))
                   ELSE popped
    IN  IF absorbed.raised # "" THEN [st EXCEPT !.raised = absorbed.raised]
        \* lines 383, 449-452: without the geometrical model blob is [[0]],
        \* blob[0] is true and blob[1] does not exist
        ELSE IF c.cone_blob /\ ~c.geometrical_extrusion_enabled
        THEN [st EXCEPT !.raised = "IndexError"]
        ELSE [ lines |-> IF c.cone_blob /\ info.blob[1] THEN blobbed ELSE absorbed.lines,
               E_length_geometrical |->
                   IF c.geometrical_extrusion_enabled
                   THEN st.E_length_geometrical + info.volume ELSE st.E_length_geometrical,
               blob_E_length |-> IF c.cone_blob /\ info.blob[1]
                                 THEN blob_E_length ELSE st.blob_E_length,
               raised |-> "" ]

\* Mutant of StepAbsorbed: the line of the step is appended whatever its
\* length
StepAbsorbedAsIs(c, st, current_z, len) ==
    [lines |-> Append(st.lines, GLine("extruding", ZWord(current_z),
                                      <<RoundDiv(len[1], len[2])>>)),
     raised |-> ""]

\* lines 417-447: the line of the step is appended, or a negative length is
\* taken from the lines before it
StepAbsorbed(c, st, current_z, len) ==
    IF c.no_pin_retraction /\ len[1] < 0
    THEN Absorb(st.lines, len[1], len[2])
    ELSE [lines |-> Append(st.lines, GLine("extruding", ZWord(current_z),
                                           <<RoundDiv(len[1], len[2])>>)),
          raised |-> ""]

\* One pass of the loop of lines 385-455.  z is the height the loop starts
\* from.
ExtrusionStep(c, st, step, n, tot, z, pin_layer_z, pin_height, pin_structure) ==
    \* line 394: int(current_pin_height / step_height - 1) is zero
    IF n - 1 = 0 THEN [st EXCEPT !.raised = "ZeroDivisionError"]
    ELSE CHOOSE next \in UNION UNION
             { { { ExtrusionStepLines(c, st, z + step * c.layer_height, info, len, absorbed)
                   : absorbed \in {StepAbsorbed(c, st, z + step * c.layer_height, len)} }
                 : len \in {StepLength(c, n, tot, step, info)} }
               : info \in {ExtrusionLengthPerStepBlobInfo(
                               c, c.layer_height, z + step * c.layer_height,
                               pin_layer_z, pin_height, pin_structure)} } : TRUE

RECURSIVE ExtrusionLoop(_, _, _, _, _, _, _, _, _)
ExtrusionLoop(c, st, step, n, tot, z, pin_layer_z, pin_height, pin_structure) ==
    IF step > n \/ st.raised # "" THEN st
    ELSE CHOOSE end \in
             {ExtrusionLoop(c, next, step + 1, n, tot, z, pin_layer_z, pin_height, pin_structure) :
                 next \in {ExtrusionStep(c, st, step, n, tot, z, pin_layer_z, pin_height,
                                         pin_structure)}} : TRUE

\* Mutant of Coda: the wipe of lines 503-513 ahead of the raise and the dwell
CodaWipeFirst(c, pin_layer_z) ==
    (IF c.wipe_enabled
     THEN <<GLine("wiping", <<>>, <<>>), GLine("spiral_wipe", <<>>, <<>>),
            GLine("spiral_wipe", <<>>, <<>>), GLine("spiral_wipe", <<>>, <<>>)>>
     ELSE <<>>)
    \o (IF c.nozzle_extrude_sunk THEN <<GLine("lifting_from_sunk", ZWord(pin_layer_z), <<0>>)>> ELSE <<>>)
    \o <<GLine("wait", <<>>, <<>>)>>
    \o <<GLine("end_pin", <<>>, <<>>), GLine("blank", <<>>, <<>>)>>

\* lines 492-518: the lines after the extrusion
Coda(c, pin_layer_z) ==
    (IF c.nozzle_extrude_sunk THEN <<GLine("lifting_from_sunk", ZWord(pin_layer_z), <<0>>)>> ELSE <<>>)
    \o <<GLine("wait", <<>>, <<>>)>>
    \o (IF c.wipe_enabled
        THEN <<GLine("wiping", <<>>, <<>>), GLine("spiral_wipe", <<>>, <<>>),
               GLine("spiral_wipe", <<>>, <<>>), GLine("spiral_wipe", <<>>, <<>>)>>
        ELSE <<>>)
    \o <<GLine("end_pin", <<>>, <<>>), GLine("blank", <<>>, <<>>)>>

\* The result of a call that raises e
Raise(e) == [lines |-> <<>>, raised |-> e]

\* lines 487-530: the lines after the extrusion, the csv export and the
\* return.  Lines 520-528 with export_pin_gcode_to_csv: the file is opened
\* when the occupancy is keyed at pin_height_mm and a "WIPING" line follows
\* the "; EXTRUDING PIN" line; open() raises when the directory is missing
Finish(c, lines, pin_layer_z) ==
    IF pin_layer_z = PinHeightMm(c) /\ c.wipe_enabled /\ ~c.csv_outputs
    THEN Raise("FileNotFoundError")
    ELSE [lines |-> lines \o Coda(c, pin_layer_z), raised |-> ""]

\* lines 456-464: the end of the stepped branch, stepped being the state the
\* loop of line 385 ends in, with the check on the sum of the geometrical
\* step lengths (lines 459-464)
SteppedEnd(c, stepped, tot_E_pin, pin_layer_z) ==
    IF stepped.raised # "" THEN Raise(stepped.raised)
    ELSE IF /\ c.geometrical_extrusion_enabled
            /\ ~(/\ 95 * tot_E_pin <= 100 * stepped.E_length_geometrical
                 /\ 100 * stepped.E_length_geometrical <= 105 * tot_E_pin)
    THEN Raise("ValueError_extrusion")
    ELSE Finish(c, stepped.lines, pin_layer_z)

\* Mutant of OneShot: the one-shot move without pressure_E_length
OneShotUnpressurized(c, head, z, tot_E_pin, pin_structure) ==
    LET cone_z == 40 * z + 10 * PinHeightMm(c) + 40
    IN  Append(head, GLine("one_shot_cone", <<cone_z>>,
                           <<RoundDiv(ELenNum(c, tot_E_pin), ELenDen(c))>>))
        \o (IF pin_structure[2][2] > 0
            THEN <<GLine("de_pressurizing", <<cone_z + 20 * pin_structure[2][2]>>,
                         <<0 - c.pressure_E_length>>)>>
            ELSE <<>>)

\* lines 466-481: the one-shot branch after the lines of head
OneShot(c, head, z, tot_E_pin, pin_structure) ==
    LET cone_z == 40 * z + 10 * PinHeightMm(c) + 40
    IN  Append(head, GLine("one_shot_cone", <<cone_z>>,
                           <<RoundDiv(ELenNum(c, tot_E_pin), ELenDen(c)) + c.pressure_E_length>>))
        \o (IF pin_structure[2][2] > 0
            THEN <<GLine("de_pressurizing", <<cone_z + 20 * pin_structure[2][2]>>,
                         <<0 - c.pressure_E_length>>)>>
            ELSE <<>>)

\* lines 342-354: whether the nozzle sinks below the height dived it is at
Sunk(c, dived) ==
    /\ c.nozzle_sinking # 0
    /\ \/ dived > c.nozzle_sinking
       \/ dived = c.nozzle_sinking /\ c.z_rounds_above
       \/ c.nozzle_sinking_1st_layer

\* lines 333-530, with the total volume tot_E_pin of lines 328-331, the
\* height dived of lines 342-345 and the lines head of lines 333-356
PinGcode(c, pin_layer_z, pin_height, E_layers, pin_structure, tot_E_pin, dived, head) ==
    LET z == IF Sunk(c, dived) /\ c.nozzle_extrude_sunk THEN dived - c.nozzle_sinking ELSE dived
    IN  \* line 603 (pin_volume) or line 364 (tot_E_pin) reads an unassigned local
        IF tot_E_pin = NoVolume THEN Raise("UnboundLocalError")
        \* line 364
        ELSE IF E_layers = 0 THEN Raise("ZeroDivisionError")
        ELSE IF c.diving_mode /\ pin_height # PinHeightMm(c)
        THEN \* lines 366-464
             \* lines 366-378: the spiral radius is too small for spiral pinning
             \* (twice the radius against twice 0.2 mm)
             IF c.spiral_mode /\ c.pin_dimension - c.nozzle_outer_diameter
                                 - 2 * c.rib_inside_protrusion - 2 * c.rib_clearance < 4
             THEN Raise("ValueError_spiral")
             ELSE SteppedEnd(c, ExtrusionLoop(c, [lines |-> head, E_length_geometrical |-> 0,
                                                  blob_E_length |-> 0, raised |-> ""],
                                              1, E_layers, tot_E_pin, z, pin_layer_z, pin_height,
                                              pin_structure),
                             tot_E_pin, pin_layer_z)
        ELSE IF c.diving_mode
        THEN Finish(c, OneShot(c, head, z, tot_E_pin, pin_structure), pin_layer_z)
        \* line 485
        ELSE Finish(c, Append(head, GLine("extruding", <<>>,
                                          <<RoundDiv(ELenNum(c, tot_E_pin), ELenDen(c))>>)),
                    pin_layer_z)

\* lines 342-345: the height the nozzle drops to
DivedZ(c, pin_layer_z, pin_height) ==
    IF c.diving_mode THEN pin_layer_z - pin_height ELSE pin_layer_z

\* _generate_pin_gcode: the lines of one occupancy of current_pin_height
\* layers keyed at `layer`, or the exception the call raises
GeneratePinGcode(c, layer, current_pin_height, pin_structure) ==
    CHOOSE result \in UNION
        { { PinGcode(c, c.layer_height * layer, current_pin_height * c.layer_height,
                     current_pin_height, pin_structure, tot_E_pin, dived, head)
            : head \in {Prelude(c, c.layer_height * layer, dived, Sunk(c, dived))} }
          : tot_E_pin \in {IF c.pin_rivet_parameters
                           THEN RivetLikePinVolume(c, current_pin_height * c.layer_height)
                           ELSE NoVolume},
            dived \in {DivedZ(c, c.layer_height * layer, current_pin_height * c.layer_height)} }
        : TRUE

----------------------------------------------------------------------------
(* compose_layer_gcode (lines 226-314): the loop over the layers           *)

\* lines 251-256: the occupancies of the pins of one part, in the order of
\* the layer's list, from the i-th on; the first exception ends the loop
RECURSIVE PinsOfPart(_, _, _, _, _)
PinsOfPart(c, layer, pins, i, acc) ==
    IF i > Len(pins) \/ acc.raised # "" THEN acc
    ELSE CHOOSE end \in
             {PinsOfPart(c, layer, pins, i + 1, [lines |-> acc.lines \o r.lines, raised |-> r.raised]) :
                 r \in {GeneratePinGcode(c, layer, pins[i].height_layers, pins[i].structure)}} : TRUE

\* lines 251-256: the loop over the parts from part p on
RECURSIVE PartsOfLayer(_, _, _, _, _)
PartsOfLayer(c, layer, pins, p, acc) ==
    IF p > c.parts_on_build_plate \/ acc.raised # "" THEN acc
    ELSE CHOOSE end \in
             {PartsOfLayer(c, layer, pins, p + 1, part) :
                 part \in {PinsOfPart(c, layer, pins, 1,
                              [acc EXCEPT !.lines = Append(@, GLine("pinning_part", <<>>, <<>>))])}} : TRUE

\* lines 241-245 and 258-262: the lines that frame the pins of a heated pin
HeatedLines(c, title) ==
    IF c.heated_pin
    THEN <<GLine(title, <<>>, <<>>), GLine("m104", <<>>, <<>>),
           GLine("m109", <<>>, <<>>), GLine("blank", <<>>, <<>>)>>
    ELSE <<>>

\* lines 258-267: the end of a layer whose occupancies are in body
LayerEnd(c, body) ==
    IF body.raised # "" THEN [lines |-> <<>>, raised |-> body.raised]
    ELSE [lines |-> body.lines \o HeatedLines(c, "cooling_nozzle")
                    \o <<GLine("m82", <<>>, <<>>), GLine("end_of_pinning_layer", <<>>, <<>>),
                         GLine("blank", <<>>, <<>>)>>,
          raised |-> ""]

\* lines 236-267: gcode_lines of one scheduled layer, or the exception
LayerGcode(c, layer, pins) ==
    CHOOSE result \in
        { LayerEnd(c, body)
          : body \in {PartsOfLayer(c, layer, pins, 1,
                         [lines |-> <<GLine("pinning_layer", <<>>, <<>>), GLine("m83", <<>>, <<>>),
                                      GLine("blank", <<>>, <<>>)>>
                                    \o HeatedLines(c, "heating_nozzle"),
                          raised |-> ""])} } : TRUE

\* Mutant of ComposeRaised: an exception of the synthesizer is swallowed
ComposeRaisedSwallowed(result) == ""

\* The exception that leaves compose_layer_gcode: the loop has no handler
ComposeRaised(result) == result.raised

\* One pass of the loop of line 232
ComposeLayer ==
    /\ cpc = "layers"
    /\ compose_layer <= TotalLayers(cfg)
    /\ IF compose_layer \notin DOMAIN staggered_schedule
       THEN \* line 233
            /\ compose_layer' = compose_layer + 1
            /\ UNCHANGED <<gcode_lines_per_layer, error, cpc>>
       ELSE \E result \in {LayerGcode(cfg, compose_layer, staggered_schedule[compose_layer])} :
              IF ComposeRaised(result) # ""
              THEN /\ error' = ComposeRaised(result)
                   /\ cpc' = "aborted"
                   /\ UNCHANGED <<gcode_lines_per_layer, compose_layer>>
              ELSE /\ gcode_lines_per_layer' =
                          [k \in DOMAIN gcode_lines_per_layer \cup {compose_layer} |->
                              IF k = compose_layer THEN result.lines ELSE gcode_lines_per_layer[k]]
                   /\ compose_layer' = compose_layer + 1
                   /\ UNCHANGED <<error, cpc>>
    /\ UNCHANGED <<cfg, staggered_schedule>>
    /\ UNCHANGED mergeVars
    /\ UNCHANGED calls

----------------------------------------------------------------------------
(* The generation pipeline: main() of a dashboard                          *)
(* (filled_dashboards/A00/A00_batch5.py, lines 67-174)                     *)

\* numpy's pi as the fraction PiNum / PiDen
PiNum == 355
PiDen == 113

\* fit_in_cross_section (pin_cross_section_definition.py, lines 39-63)
FitInCrossSection(c) ==
    LET pins == c.num_pins_largest_side * c.num_pins_smallest_side
        \* real_infill * 100 = area_num / area_den
        area_num == 100 * pins * PiNum * c.pin_dimension * c.pin_dimension
        area_den == 4 * PiDen * c.largest_side * c.smallest_side
        total_pin_length_largest_side ==
            (c.num_pins_largest_side - 1) * (c.pin_dimension + 2 * c.layer_height)
        total_pin_length_smallest_side ==
            (c.num_pins_smallest_side - 1) * (c.pin_dimension + 2 * c.layer_height)
    IN  /\ Abs(area_num - c.infill_percentage * area_den) <= area_den
        /\ c.largest_side - total_pin_length_largest_side >= 2 * c.least_edge_margin
        /\ c.smallest_side - total_pin_length_smallest_side >= 2 * c.least_edge_margin

\* define_pins_relative_xy (lines 115-147): "" or the exception it raises
DefinePinsRaised(c) ==
    IF c.pin_shape # "circular" /\ c.pin_shape # "square" THEN "ValueError_shape"
    ELSE IF ~FitInCrossSection(c) THEN "ValueError_fit"
    ELSE ""

\* Step 2 of main() (line 89); the composer is built when it returns
DefinePinsRelativeXY ==
    /\ cpc = "define"
    /\ IF DefinePinsRaised(cfg) # ""
       THEN error' = DefinePinsRaised(cfg) /\ cpc' = "aborted"
       ELSE error' = error /\ cpc' = "compose"
    /\ UNCHANGED <<cfg, staggered_schedule, gcode_lines_per_layer, compose_layer>>
    /\ UNCHANGED mergeVars
    /\ UNCHANGED calls

\* compose_layer_gcode returns (line 314, with the parse of line 270) and
\* main() builds the GCodeModifier of the sliced file (lines 171-172)
ComposeReturn ==
    /\ cpc = "layers"
    /\ compose_layer > TotalLayers(cfg)
    /\ cpc' = "composed"
    /\ pin_gcode_dict' = [k \in DOMAIN gcode_lines_per_layer |-> PinBlock(k)]
    /\ layer_height' = 10 * cfg.layer_height
    /\ start_layer' = 0
    /\ mpc' = "read"
    /\ UNCHANGED <<cfg, staggered_schedule, gcode_lines_per_layer, compose_layer, error>>
    /\ UNCHANGED <<gcode_lines, parsed_gcode_lines, line_idx, modified_gcode, header_pin_inserted,
                   object_printing_started, last_layer_pinned, modified_gcode_lines, saved_file>>
    /\ UNCHANGED calls

\* The text of a height of z units of 0.1 mm (below 10 mm), as in ";Z:0.2"
ZText(z) ==
    LET digit(n) == <<"0", "1", "2", "3", "4", "5", "6", "7", "8", "9">>[n + 1]
    IN  <<digit(z \div 10), ".", digit(z % 10)>>

\* The sliced file of a specimen of n layers: the thumbnail comment, per layer
\* the ";Z:" comment and the move to the layer, and the end comment
RECURSIVE SlicedLayers(_, _, _)
SlicedLayers(k, n, lh) ==
    IF k > n THEN <<>>
    ELSE << <<";", "Z", ":">> \o ZText(k * lh),
            <<"G", "1", " ", "Z">> \o ZText(k * lh) \o <<" ", ";", " ", LC>> >>
         \o SlicedLayers(k + 1, n, lh)

SlicedFile(c) == << <<TH>> >> \o SlicedLayers(1, TotalLayers(c), c.layer_height) \o << <<";", " ", END>> >>

MaxParts == 2        \* most parts on the build plate

\* The configurations of the pipeline. A layout is <<pin_shape,
\* num_pins_largest_side, infill_percentage, least_edge_margin>>: two fit,
\* and there is one for each way of not fitting. Sinking is <<nozzle_sinking,
\* nozzle_sinking_1st_layer>>: no sinking, sinking from the first layer on,
\* sinking above the sinking depth only. flags holds diving_mode,
\* geometrical_extrusion_enabled, a pressure length of 0.5 mm or none, a
\* cylinder section of 0.1 mm or none, and whether the csv directory exists.
\* A layout that does not fit comes with the parameters of BaseConfig, a
\* layout that fits with every setting of the synthesizer.
PipeConfigs ==
    LET PipeFits == { <<"circular", 1, 8, 5>>, <<"square", MaxPins, 24, 5>> }
        PipeMisfits ==
            { <<"hexagonal", 1, 8, 5>>, <<"circular", 1, 24, 5>>, <<"circular", 1, 8, 25>> }
        PipeStartLists == {<<>>, <<1>>, <<MaxPhl, 1>>}
        PipeSinking == {<<0, TRUE>>, <<1, TRUE>>, <<1, FALSE>>}
        PipeSettings ==
            { [BaseConfig EXCEPT
                  !.pin_height_input = p, !.specimen_height_mm = t * BaseConfig.layer_height,
                  !.fixed_start_layers = f, !.parts_on_build_plate = parts,
                  !.nozzle_sinking = s[1], !.nozzle_sinking_1st_layer = s[2],
                  !.diving_mode = flags[1], !.geometrical_extrusion_enabled = flags[2],
                  !.pressure_E_length = IF flags[3] THEN 5000 ELSE 0,
                  !.cylinder_height = IF flags[4] THEN 1 ELSE 0, !.csv_outputs = flags[5]]
              : p \in 1..MaxPhl, t \in 1..MaxTotal, f \in PipeStartLists,
                parts \in 1..MaxParts, s \in PipeSinking, flags \in [1..5 -> BOOLEAN] }
    IN  { [c EXCEPT !.pin_shape = l[1], !.num_pins_largest_side = l[2],
                    !.infill_percentage = l[3], !.least_edge_margin = l[4]]
          : l \in PipeMisfits, c \in {BaseConfig} }
        \cup
        { [c EXCEPT !.pin_shape = l[1], !.num_pins_largest_side = l[2],
                    !.infill_percentage = l[3], !.least_edge_margin = l[4]]
          : l \in PipeFits, c \in PipeSettings }

(* Specification of the pipeline: main() of a dashboard on every           *)
(* configuration within the bounds, with the sliced file of the specimen.  *)
InitPipe ==
    /\ cfg \in PipeConfigs
    /\ staggered_schedule = <<>>
    /\ gcode_lines_per_layer = <<>>
    /\ compose_layer = 0
    /\ error = ""
    /\ cpc = "define"
    /\ gcode_lines = SlicedFile(cfg)
    /\ parsed_gcode_lines = <<>>
    /\ pin_gcode_dict = <<>>
    /\ start_layer = 0
    /\ line_idx = 0
    /\ modified_gcode = <<>>
    /\ header_pin_inserted = FALSE
    /\ object_printing_started = FALSE
    /\ last_layer_pinned = FALSE
    /\ modified_gcode_lines = <<>>
    /\ saved_file = <<>>
    /\ layer_height = 10
    /\ mpc = "idle"
    /\ calls = <<>>

NextPipe ==
    \/ DefinePinsRelativeXY
    \/ GenerateStaggeredPinningSchedule
    \/ ComposeLayer
    \/ ComposeReturn
    \/ ReadGcodeFile
    \/ InsertPinGcode

SpecPipe == InitPipe /\ [][NextPipe]_vars

----------------------------------------------------------------------------
(* C1: when insert_pin_gcode completes, the output with the inserted       *)
(* records (header block, blank separators, pin blocks) deleted is exactly *)
(* the input's record sequence: every original line once, unmodified, in   *)
(* order.  When it raises, the same holds of the lines consumed so far.     *)
C1_OriginalLinesPreserved ==
    /\ SelectSeq(modified_gcode, IsOrig) = SubSeq(parsed_gcode_lines, 1, line_idx)
    /\ mpc = "saved" => SelectSeq(modified_gcode, IsOrig) = parsed_gcode_lines

C1_Witness ==
    /\ mpc = "saved"
    /\ Len(parsed_gcode_lines) = 2
    /\ \E i \in 1..Len(modified_gcode) : modified_gcode[i].src = "pin"
    /\ \E i \in 1..Len(modified_gcode) : modified_gcode[i].src = "hdr"

(* C2 (as amended): at each layer-change line of layer L the block of L-1, *)
(* preceded by two blank separators, is inserted immediately before the    *)
(* line iff the schedule holds L-1 and L >= start_layer; otherwise no pin  *)
(* block and no separator is inserted there.  The only other records the   *)
(* line can receive are the header block, ahead of these, when the line is *)
(* also the first header-marker line.                                      *)
C2_LayerChangeInsertion ==
    \A chunk \in {Chunks(modified_gcode)} :
        \A k \in 1..line_idx :
            HasMarker(k, LC) => chunk[k] = HeaderAt(k) \o ScheduledAt(k)

C2_Witness ==
    /\ mpc = "saved"
    /\ \E k \in 1..line_idx :
          /\ HasMarker(k, LC)
          /\ Chunks(modified_gcode)[k] = <<BlankRec, BlankRec>> \o PinBlock(1)
    /\ \E k \in 1..line_idx :
          /\ HasMarker(k, LC)
          /\ Chunks(modified_gcode)[k] = <<>>

(* C2 as stated: at a layer-change line either the two separators and the  *)
(* block of L-1 are inserted (schedule holds L-1 and L >= start_layer) or  *)
(* nothing at all is inserted at that line.                                *)
C2_AsStated ==
    \A k \in 1..line_idx :
        HasMarker(k, LC) => Chunks(modified_gcode)[k] = ScheduledAt(k)

----------------------------------------------------------------------------
(* The synthesizer on one occupancy: the two calls the schedule generator  *)
(* and compose_layer_gcode make for an entry (lines 154 and 254-256)       *)

\* The call of line 154 for the entry of compose_layer.  Line 168: without
\* a rivet profile pin_rivet_parameters is None and the subscript raises
CallDeterminePinStructure ==
    /\ cpc = "structure"
    /\ IF ~cfg.pin_rivet_parameters
       THEN /\ error' = "TypeError"
            /\ cpc' = "aborted"
            /\ UNCHANGED staggered_schedule
       ELSE /\ staggered_schedule' =
                  [staggered_schedule EXCEPT ![compose_layer][1].structure =
                      DeterminePinStructure(cfg, staggered_schedule[compose_layer][1].height_layers,
                                            compose_layer)]
            /\ cpc' = "pin"
            /\ UNCHANGED error
    /\ UNCHANGED <<cfg, gcode_lines_per_layer, compose_layer>>
    /\ UNCHANGED mergeVars
    /\ UNCHANGED calls

\* The call of lines 254-256 for the entry of compose_layer
CallGeneratePinGcode ==
    /\ cpc = "pin"
    /\ \E result \in {GeneratePinGcode(cfg, compose_layer,
                                       staggered_schedule[compose_layer][1].height_layers,
                                       staggered_schedule[compose_layer][1].structure)} :
          IF result.raised # ""
          THEN /\ error' = result.raised
               /\ cpc' = "aborted"
               /\ UNCHANGED gcode_lines_per_layer
          ELSE /\ gcode_lines_per_layer' = (compose_layer :> result.lines)
               /\ cpc' = "pin_done"
               /\ UNCHANGED error
    /\ UNCHANGED <<cfg, staggered_schedule, compose_layer>>
    /\ UNCHANGED mergeVars
    /\ UNCHANGED calls

\* The configurations of the synthesizer. Sinking is <<nozzle_sinking,
\* nozzle_sinking_1st_layer, nozzle_extrude_sunk, nozzle_sinking_wait_time>>.
\* Spiral is <<spiral_mode, rib_clearance>>: no spiral, a spiral that has
\* room, a spiral that has none. Cylinder is <<cylinder_height,
\* stack_rounds_below>>: no cylinder section, one of 0.1 mm (a cylinder of
\* 0.2 mm), and one whose stack height rounds below. flags holds
\* diving_mode, geometrical_extrusion_enabled, variable_extrusion_enabled
\* (with a skew of 50 %), cone_blob, no_pin_retraction, a pressure length of
\* 0.5 mm or none, and wipe_enabled. A rivet profile comes with every
\* setting, a simple shape (no rivet profile) with the settings of BaseConfig.
SynthConfigs ==
    LET SynthSinking ==
            {<<0, TRUE, TRUE, 0>>, <<1, TRUE, TRUE, 0>>, <<1, TRUE, TRUE, 5>>,
             <<1, FALSE, TRUE, 0>>, <<1, TRUE, FALSE, 5>>}
        SynthSpiral == {<<FALSE, 0>>, <<TRUE, 0>>, <<TRUE, 2>>}
        SynthCylinder == {<<0, FALSE>>, <<1, FALSE>>, <<1, TRUE>>}
    IN  { [BaseConfig EXCEPT
              !.pin_height_input = p, !.specimen_height_mm = MaxTotal,
              !.nozzle_sinking = s[1], !.nozzle_sinking_1st_layer = s[2],
              !.nozzle_extrude_sunk = s[3], !.nozzle_sinking_wait_time = s[4],
              !.spiral_mode = sp[1], !.rib_clearance = sp[2],
              !.diving_mode = flags[1], !.geometrical_extrusion_enabled = flags[2],
              !.variable_extrusion_enabled = flags[3], !.extrusion_skew_percentage = 50,
              !.cone_blob = flags[4], !.no_pin_retraction = flags[5],
              !.pressure_E_length = IF flags[6] THEN 5000 ELSE 0,
              !.wipe_enabled = flags[7],
              !.cylinder_height = cyl[1], !.stack_rounds_below = cyl[2]]
          : p \in 1..MaxPhl, s \in SynthSinking, sp \in SynthSpiral, cyl \in SynthCylinder,
            flags \in [1..7 -> BOOLEAN] }
        \cup { [BaseConfig EXCEPT !.pin_rivet_parameters = FALSE, !.pin_shape = shape,
                                  !.pin_height_input = p, !.specimen_height_mm = MaxTotal]
               : shape \in {"circular", "square"}, p \in 1..MaxPhl }

(* Specification of the synthesizer: one occupancy of every height at      *)
(* every layer, under every setting within the bounds.  The occupancies    *)
(* <<layer, height_layers>> are those the schedule generator makes for the *)
(* pin (lines 148-154): the first one, as high as its layer, and the later *)
(* ones, of at most pin_height_input layers.                               *)
InitSynth ==
    /\ cfg \in SynthConfigs
    /\ \E o \in { o \in (1..MaxTotal) \X (1..MaxTotal) :
                    o[2] <= o[1] /\ (o[2] = o[1] \/ o[2] <= cfg.pin_height_input) } :
          /\ compose_layer = o[1]
          /\ staggered_schedule =
                 (o[1] :> <<[pin_index |-> 0, height_layers |-> o[2], structure |-> <<>>]>>)
    /\ gcode_lines_per_layer = <<>>
    /\ error = ""
    /\ cpc = "structure"
    /\ MergerIdle
    /\ calls = <<>>

NextSynth == CallDeterminePinStructure \/ CallGeneratePinGcode

SpecSynth == InitSynth /\ [][NextSynth]_vars

----------------------------------------------------------------------------
(* Readers of the composed layers                                          *)

\* The places of a layer's lines where an occupancy begins (line 334)
Titles(block) == {i \in 1..Len(block) : block[i].kind = "pin_title"}

\* The lines of the occupancy that begins at place i: up to the next title
OccupancyAt(block, i) ==
    LET later == {j \in Titles(block) : j > i}
        last == IF later = {} THEN Len(block)
                ELSE (CHOOSE j \in later : \A k \in later : j <= k) - 1
    IN  SubSeq(block, i, last)

\* The entry of the layer's list the occupancy at place i was made from: the
\* loop of line 251 walks the list once per part
EntryAt(block, i, pins) ==
    pins[((Cardinality({j \in Titles(block) : j < i})) % Len(pins)) + 1]

\* The sum of the E words of lines, in 0.0001 mm
RECURSIVE SumE(_)
SumE(lines) ==
    IF lines = <<>> THEN 0
    ELSE (IF Head(lines).e = <<>> THEN 0 ELSE Head(lines).e[1]) + SumE(Tail(lines))

(* C3: every occupancy that compose_layer_gcode has stored emits E words   *)
(* whose sum lies within 5% of the length the volume model returns for the *)
(* height of the occupancy (an occupancy outside 5% raises instead).      *)
C3_EmittedWithinFivePercent ==
    \A layer \in DOMAIN gcode_lines_per_layer :
        \A i \in Titles(gcode_lines_per_layer[layer]) :
            LET block == gcode_lines_per_layer[layer]
                entry == EntryAt(block, i, staggered_schedule[layer])
                volume == RivetLikePinVolume(cfg, entry.height_layers * cfg.layer_height)
                sum == SumE(OccupancyAt(block, i))
            IN  /\ 95 * ELenNum(cfg, volume) <= 100 * ELenDen(cfg) * sum
                /\ 100 * ELenDen(cfg) * sum <= 105 * ELenNum(cfg, volume)

(* C4 (as amended): for every pin, with s its start layer: when            *)
(* s <= total_layers the spans of its occupancies are pairwise disjoint    *)
(* and cover exactly the layers 1..total_layers, the first span being the  *)
(* layers 1..s below the start layer (height s), the last one ending at    *)
(* total_layers, and the heights sum to total_layers; when                 *)
(* total_layers < s < total_layers + pin_height_layers the pin has the one *)
(* unclipped occupancy keyed at s with height s; from there on it has      *)
(* none.                                                                   *)
C4_SpansTileSpecimen ==
    cpc = "layers" =>
        \A p \in 0..(PinCount(cfg) - 1) :
            LET fixed == cfg.fixed_start_layers
                s == IF fixed # <<>> THEN fixed[(p % Len(fixed)) + 1] ELSE 0
                total == cfg.specimen_height_mm \div cfg.layer_height
                E == EntriesOf(p)
            IN  IF s <= total
                THEN /\ \A e1, e2 \in E : e1 # e2 => Span(e1) \cap Span(e2) = {}
                     /\ UNION {Span(e) : e \in E} = 1..total
                     /\ \E e \in E : e[1] = s /\ Span(e) = 1..s
                     /\ \E e \in E : e[1] = total
                     /\ \A e \in E : e[1] <= total
                     /\ SumHeights(E) = total
                ELSE IF s < total + cfg.pin_height_input
                THEN /\ Cardinality(E) = 1
                     /\ \A e \in E : e[1] = s /\ HeightAt(e) = s
                ELSE E = {}

C4_Witness ==
    /\ cpc = "layers"
    /\ cfg.fixed_start_layers = <<1, 2>>
    /\ PinCount(cfg) = 2
    /\ cfg.pin_height_input = 3
    /\ cfg.specimen_height_mm = 4
    /\ Cardinality(EntriesOf(0)) = 2
    /\ Cardinality(EntriesOf(1)) = 2
    /\ \E e \in EntriesOf(1) : e[1] = 4 /\ HeightAt(e) = 2

(* C4 as stated: the spans of a pin cover exactly the range from its start *)
(* layer up to total_layers.                                               *)
C4_AsStated ==
    cpc = "layers" =>
        \A p \in 0..(PinCount(cfg) - 1) :
            LET fixed == cfg.fixed_start_layers
                s == IF fixed # <<>> THEN fixed[(p % Len(fixed)) + 1] ELSE 0
                total == cfg.specimen_height_mm \div cfg.layer_height
            IN  UNION {Span(e) : e \in EntriesOf(p)} = Max(s, 1)..total

(* C5 (as amended): the start layer of pin i, the layer of its first       *)
(* occupancy, is fixed_start_layers[i mod len(fixed_start_layers)] when an *)
(* explicit list is configured, and otherwise is 0 for every pin.          *)
C5_StartLayer ==
    cpc = "layers" =>
        \A p \in 0..(PinCount(cfg) - 1) :
            LET fixed == cfg.fixed_start_layers
                s == IF fixed # <<>> THEN fixed[(p % Len(fixed)) + 1] ELSE 0
                E == EntriesOf(p)
            IN  E # {} =>
                    /\ \E e \in E : e[1] = s /\ HeightAt(e) = s
                    /\ \A e \in E : e[1] >= s

C5_Witness ==
    /\ cpc = "layers"
    /\ cfg.fixed_start_layers = <<2, 1>>
    /\ PinCount(cfg) = 3
    /\ \E e \in EntriesOf(2) : e[1] = 2 /\ HeightAt(e) = 2
    /\ \E e \in EntriesOf(1) : e[1] = 1 /\ HeightAt(e) = 1

(* C5 as stated: without an explicit list pin i starts at the even offset  *)
(* i * (pin_height_layers / pin_count).                                    *)
C5_AsStated ==
    (cpc = "layers" /\ cfg.fixed_start_layers = <<>>) =>
        \A p \in 0..(PinCount(cfg) - 1) :
            \E e \in EntriesOf(p) :
                /\ e[1] = p * (cfg.pin_height_input \div PinCount(cfg))
                /\ \A e2 \in EntriesOf(p) : e2[1] >= e[1]

C7_NoDoubleFlush ==
    \A k \in 1..line_idx :
        (HasMarker(k, END) /\ ~HasMarker(k, LC)) =>
            \A j \in 1..(k - 1) :
                HasMarker(j, LC) =>
                    BlocksIn(Chunks(modified_gcode)[j])
                        \cap BlocksIn(Chunks(modified_gcode)[k]) = {}

(* C8: for a document without header, layer-change and end-of-program     *)
(* marker, parse_gcode_lines, insert_pin_gcode with an empty schedule and  *)
(* _convert_dict_to_gcode give back, line for line, the original text.     *)
C8_RoundTripIdentity ==
    (mpc = "saved" /\ MarkerFree(gcode_lines)) => modified_gcode_lines = gcode_lines

(* C9: a failed feasibility check and an exception of the synthesizer      *)
(* abort the generation: after an error nothing is merged or saved, and    *)
(* the merger is only reached, and a file only saved, when the layout is   *)
(* feasible and every occupancy of every scheduled layer of the specimen   *)
(* was synthesized without error.                                          *)
C9_FailureAbortsGeneration ==
    /\ error # "" =>
          /\ cpc = "aborted"
          /\ mpc = "idle"
          /\ modified_gcode = <<>>
          /\ saved_file = <<>>
    /\ (mpc # "idle" \/ saved_file # <<>>) =>
          /\ cfg.pin_shape \in {"circular", "square"}
          /\ FitInCrossSection(cfg)
          /\ LET schedule == StaggeredPinningSchedule(cfg)
             IN  \A layer \in DOMAIN schedule \cap 1..TotalLayers(cfg) :
                     \A i \in 1..Len(schedule[layer]) :
                         GeneratePinGcode(cfg, layer, schedule[layer][i].height_layers,
                                          schedule[layer][i].structure).raised = ""

C9_Witness ==
    /\ error = "ValueError_extrusion"
    /\ cpc = "aborted"
    /\ compose_layer \in DOMAIN staggered_schedule
    /\ mpc = "idle"
    /\ saved_file = <<>>

(* C10: a document without header-insertion marker is not merged and      *)
(* saved silently: a saved output implies the marker was in the input.     *)
C10_MissingMarkerSurfaced ==
    mpc = "saved" => \E k \in 1..Len(parsed_gcode_lines) : HasMarker(k, TH)

(* C11: for a simple shape (no rivet profile) an occupancy is synthesized  *)
(* and the E words of its commands sum to volume / filament area *         *)
(* flow_ratio, the volume being pi r^2 h (circular) or s^2 h (square) of   *)
(* pin_dimension and the occupancy's height; lengths in 0.0001 mm.         *)
C11_SimpleShapeLength ==
    (~cfg.pin_rivet_parameters /\ cpc \in {"pin_done", "aborted"}) =>
        /\ error = ""
        /\ compose_layer \in DOMAIN gcode_lines_per_layer
        /\ LET h == staggered_schedule[compose_layer][1].height_layers * cfg.layer_height
               d == cfg.pin_dimension
           IN  SumE(gcode_lines_per_layer[compose_layer])
                   = IF cfg.pin_shape = "circular"
                     THEN RoundDiv(160 * d * d * h * cfg.flow_ratio, 49)
                     ELSE RoundDiv(640 * PiDen * d * d * h * cfg.flow_ratio, 49 * PiNum)

----------------------------------------------------------------------------
(* The volume model called directly: _rivet_like_pin_extrusion_length on   *)
(* heights of a rivet profile                                              *)

MaxRadius == 3       \* largest cone_radius and cylinder_radius (0.1 mm)
MaxCone == 3         \* largest cone_height (0.1 mm)
MaxCylinder == 2     \* largest cylinder_height of the profile (0.1 mm)
MaxCalls == 2        \* direct calls made in a behaviour

\* The rivet profiles of the bounds, with a flow_ratio of 1.0 or 2.0. cyl
\* is <<cylinder_height, stack_rounds_below>>: without a cylinder the sum of
\* line 584 is 2 * cone_height, which is exact
VolumeProfiles ==
    { [BaseConfig EXCEPT !.cone_radius = R, !.cone_height = ch, !.cylinder_radius = r,
                         !.cylinder_height = cyl[1], !.stack_rounds_below = cyl[2],
                         !.flow_ratio = f]
      : R \in 1..MaxRadius, ch \in 1..MaxCone, r \in 1..MaxRadius,
        cyl \in ({0} \X {FALSE}) \cup ((1..MaxCylinder) \X BOOLEAN), f \in 1..2 }

\* The height of the stack lower cone, cylinder, upper cone (lines 565-566,
\* 584): cylinder_height of the profile is half the cylinder
NominalStackHeight(c) == 2 * c.cone_height + 2 * c.cylinder_height

\* _rivet_like_pin_extrusion_length (lines 562-605): the length as num / den
\* in units of 0.0001 mm; round(pin_height, 5) of line 567 leaves a height
\* of whole units of 0.1 mm as it is
RivetLikePinExtrusionLength(c, pin_height) ==
    CHOOSE r \in { IF volume = NoVolume
                   THEN [raised |-> "UnboundLocalError", num |-> 0, den |-> 1]
                   ELSE [raised |-> "", num |-> ELenNum(c, volume), den |-> ELenDen(c)]
                   : volume \in {RivetLikePinVolume(c, pin_height)} } : TRUE

\* A direct call of _rivet_like_pin_extrusion_length
CallRivetLikePinExtrusionLength ==
    /\ cpc = "volume"
    /\ Len(calls) < MaxCalls
    /\ \E pin_height \in 0..(2 * MaxCone + 2 * MaxCylinder) :
          calls' = Append(calls, [pin_height |-> pin_height,
                                  ret |-> RivetLikePinExtrusionLength(cfg, pin_height)])
    /\ UNCHANGED composeVars
    /\ UNCHANGED mergeVars

InitVolume ==
    /\ cfg \in VolumeProfiles
    /\ staggered_schedule = <<>>
    /\ gcode_lines_per_layer = <<>>
    /\ compose_layer = 0
    /\ error = ""
    /\ cpc = "volume"
    /\ MergerIdle
    /\ calls = <<>>

NextVolume == CallRivetLikePinExtrusionLength

SpecVolume == InitVolume /\ [][NextVolume]_vars

(* C12: a call of _rivet_like_pin_extrusion_length on a height h of the    *)
(* nominal stack returns the reference volume (partial lower cone; full    *)
(* cone plus partial cylinder; full cone, full cylinder plus partial upper *)
(* cone) over the filament area times flow_ratio; of two calls the higher  *)
(* h returns the longer length; and at the full stack height the length is *)
(* that of the three section volumes added up.                             *)
C12_RivetVolume ==
    LET ch == cfg.cone_height
        cyl == 2 * cfg.cylinder_height
        r == cfg.cylinder_radius
        R == cfg.cone_radius
        \* 12 ch^2 / pi times the volume of a frustum of height t that
        \* starts at radius r and widens by (R - r) / ch per unit of height
        Frustum(t) == 4 * t * ((r * ch) * (r * ch) + (r * ch) * (r * ch + (R - r) * t)
                               + (r * ch + (R - r) * t) * (r * ch + (R - r) * t))
        Cylinder(t) == 12 * ch * ch * r * r * t
        Reference(h) == IF h <= ch THEN Frustum(h)
                        ELSE IF h <= ch + cyl THEN Frustum(ch) + Cylinder(h - ch)
                        ELSE Frustum(ch) + Cylinder(cyl) + Frustum(h - ch - cyl)
        \* the length num / den is volume * 160 * flow_ratio over 147 ch^2
        IsLengthOf(ret, volume) ==
            ret.raised = "" /\ ret.den = 147 * ch * ch /\ ret.num = 160 * volume * cfg.flow_ratio
    IN  \A i \in 1..Len(calls) :
            calls[i].pin_height <= NominalStackHeight(cfg) =>
                /\ IsLengthOf(calls[i].ret, Reference(calls[i].pin_height))
                /\ calls[i].pin_height = NominalStackHeight(cfg) =>
                       IsLengthOf(calls[i].ret, Frustum(ch) + Cylinder(cyl) + Frustum(ch))
                /\ \A j \in 1..Len(calls) :
                       calls[i].pin_height < calls[j].pin_height
                       /\ calls[j].pin_height <= NominalStackHeight(cfg)
                       => calls[i].ret.den = calls[j].ret.den /\ calls[i].ret.num < calls[j].ret.num

----------------------------------------------------------------------------
(* The layout planner called directly: define_pins_relative_xy             *)
(* (pin_cross_section_definition.py)                                       *)

MaxInfill == 25      \* largest requested infill_percentage

\* A position along a side of n pins of pin_dimension d, for the pin of
\* index i (lines 67-88): round(spacing + i * (d + spacing) + d / 2, 4), in
\* units of 0.0001 mm
PositionAlong(side, n, d, i) ==
    LET available_space == side - n * d
        den == IF n > 1 THEN n + 1 ELSE 2
    IN  RoundDiv(1000 * (2 * (i + 1) * available_space + den * (2 * i * d + d)), 2 * den)

\* calculate_pin_positions (lines 65-90): the list of (x, y), the loop over
\* the largest side outside
CalculatePinPositions(c) ==
    [ k \in 1..(c.num_pins_largest_side * c.num_pins_smallest_side) |->
        <<PositionAlong(c.largest_side, c.num_pins_largest_side, c.pin_dimension,
                        (k - 1) \div c.num_pins_smallest_side),
          PositionAlong(c.smallest_side, c.num_pins_smallest_side, c.pin_dimension,
                        (k - 1) % c.num_pins_smallest_side)>> ]

\* define_pins_relative_xy (lines 115-147): the exception it raises, or the
\* layout it returns
DefinePinsReturn(c) ==
    CHOOSE r \in { IF raised # "" THEN [raised |-> raised, pins_relative_xy |-> <<>>]
                   ELSE [raised |-> "", pins_relative_xy |-> CalculatePinPositions(c)]
                   : raised \in {DefinePinsRaised(c)} } : TRUE

\* A direct call of define_pins_relative_xy
CallDefinePinsRelativeXY ==
    /\ cpc = "layout"
    /\ calls = <<>>
    /\ calls' = <<[ret |-> DefinePinsReturn(cfg)]>>
    /\ UNCHANGED composeVars
    /\ UNCHANGED mergeVars

\* Cross-sections of 10 x 4 mm with pins of 1, 2 or 3 mm, of every layout,
\* margin and requested infill within the bounds
LayoutConfigs ==
    { [BaseConfig EXCEPT !.pin_dimension = d, !.pin_shape = shape,
                         !.num_pins_largest_side = nl, !.num_pins_smallest_side = ns,
                         !.least_edge_margin = margin, !.infill_percentage = infill]
      : d \in {10, 20, 30}, shape \in {"circular", "square", "hexagonal"},
        nl \in 1..MaxPins, ns \in 1..2, margin \in {5, 15}, infill \in 1..MaxInfill }

InitLayout ==
    /\ cfg \in LayoutConfigs
    /\ staggered_schedule = <<>>
    /\ gcode_lines_per_layer = <<>>
    /\ compose_layer = 0
    /\ error = ""
    /\ cpc = "layout"
    /\ MergerIdle
    /\ calls = <<>>

NextLayout == CallDefinePinsRelativeXY

SpecLayout == InitLayout /\ [][NextLayout]_vars

(* C13: define_pins_relative_xy returns a layout only if the achieved      *)
(* infill, the area of the pins (pi d^2 / 4 per circular pin, s^2 per      *)
(* square pin) over the area of the cross-section, is within 1 percentage  *)
(* point of the requested infill; otherwise it raises and returns nothing. *)
C13_InfillWithinOnePoint ==
    \A i \in 1..Len(calls) :
        LET pins == cfg.num_pins_largest_side * cfg.num_pins_smallest_side
            \* achieved infill in percent = area_num / area_den
            area_num == IF cfg.pin_shape = "circular"
                        THEN 100 * pins * PiNum * cfg.pin_dimension * cfg.pin_dimension
                        ELSE 100 * pins * 4 * PiDen * cfg.pin_dimension * cfg.pin_dimension
            area_den == 4 * PiDen * cfg.largest_side * cfg.smallest_side
        IN  IF calls[i].ret.raised = ""
            THEN Abs(area_num - cfg.infill_percentage * area_den) <= area_den
            ELSE calls[i].ret.pins_relative_xy = <<>>

(* C14: every pin of a returned layout, a disc or square of pin_dimension  *)
(* centred at its position, lies inside the cross-section with at least    *)
(* least_edge_margin between its edge and each edge of the cross-section.  *)
C14_PinsKeepEdgeMargin ==
    \A i \in 1..Len(calls) :
        calls[i].ret.raised = "" =>
            \A k \in 1..Len(calls[i].ret.pins_relative_xy) :
                LET x == calls[i].ret.pins_relative_xy[k][1]
                    y == calls[i].ret.pins_relative_xy[k][2]
                    half == 500 * cfg.pin_dimension
                    margin == 1000 * cfg.least_edge_margin
                IN  /\ x - half >= margin
                    /\ x + half <= 1000 * cfg.largest_side - margin
                    /\ y - half >= margin
                    /\ y + half <= 1000 * cfg.smallest_side - margin

----------------------------------------------------------------------------
(* The placement transform called directly: _apply_transformation          *)
(* (gcode_snippets.py, lines 8-42)                                         *)

MaxPositions == 2    \* longest list of pin positions

\* The rotations whose cosine and sine are fifths: <<5 cos, 5 sin>> of the
\* multiples of 90 degrees and of the angles of the 3-4-5 triangle
Rotations ==
    { r \in (0 - 5..5) \X (0 - 5..5) : r[1] * r[1] + r[2] * r[2] = 25 }

\* _apply_transformation without the adjustment of lines 27-28: the corner
\* of the cross-section is placed at translation_xy
ApplyTransformationCorner(pin_positions, translation_xy, rotation, cross_section_x_dim, cross_section_y_dim) ==
    [ transformed_positions |->
          [ k \in 1..Len(pin_positions) |->
              <<2 * (pin_positions[k][1] * rotation[1] - pin_positions[k][2] * rotation[2])
                    + 10 * translation_xy[1],
                2 * (pin_positions[k][1] * rotation[2] + pin_positions[k][2] * rotation[1])
                    + 10 * translation_xy[2]>> ],
      pin_positions |-> pin_positions ]

\* _apply_transformation (lines 8-42): the list it returns, in tenths of the
\* unit of the positions (halves of the sides times fifths of the rotation),
\* and the list it was given as the call leaves it (the loop of line 31 only
\* reads it)
ApplyTransformation(pin_positions, translation_xy, rotation, cross_section_x_dim, cross_section_y_dim) ==
    LET cos_theta == rotation[1]
        sin_theta == rotation[2]
        x_translation == 10 * translation_xy[1]
                             - (cross_section_x_dim * cos_theta - cross_section_y_dim * sin_theta)
        y_translation == 10 * translation_xy[2]
                             - (cross_section_x_dim * sin_theta + cross_section_y_dim * cos_theta)
    IN  [ transformed_positions |->
              [ k \in 1..Len(pin_positions) |->
                  <<2 * (pin_positions[k][1] * cos_theta - pin_positions[k][2] * sin_theta)
                        + x_translation,
                    2 * (pin_positions[k][1] * sin_theta + pin_positions[k][2] * cos_theta)
                        + y_translation>> ],
          pin_positions |-> pin_positions ]

\* The corners, the mid-sides and the centre of the cross-section
\* The call of line 113, for one part: a list of at most MaxPositions of
\* these positions, and part['xy'] of a part of the build plate
CallApplyTransformation ==
    /\ cpc = "transform"
    /\ calls = <<>>
    /\ \E pin_positions \in
              UNION { [1..n -> {0, cfg.largest_side \div 2, cfg.largest_side}
                                 \X {0, cfg.smallest_side \div 2, cfg.smallest_side}]
                      : n \in 0..MaxPositions },
          xy \in { <<0, 0>>, <<1250, 1050>>, <<0 - 7, 3>> },
          rotation \in Rotations :
          \E r \in {ApplyTransformation(pin_positions, xy, rotation, cfg.largest_side,
                                        cfg.smallest_side)} :
              calls' = <<[pin_positions |-> pin_positions, xy |-> xy, rotation |-> rotation,
                          pin_positions_after |-> r.pin_positions,
                          ret |-> r.transformed_positions]>>
    /\ UNCHANGED composeVars
    /\ UNCHANGED mergeVars

\* Cross-sections of 10 x 4, 3 x 3 and 2.4 x 1.6 mm
InitTransform ==
    /\ cfg \in { [BaseConfig EXCEPT !.largest_side = s[1], !.smallest_side = s[2]]
                 : s \in {<<100, 40>>, <<30, 30>>, <<24, 16>>} }
    /\ staggered_schedule = <<>>
    /\ gcode_lines_per_layer = <<>>
    /\ compose_layer = 0
    /\ error = ""
    /\ cpc = "transform"
    /\ MergerIdle
    /\ calls = <<>>

NextTransform == CallApplyTransformation

SpecTransform == InitTransform /\ [][NextTransform]_vars

(* C15: _apply_transformation maps a position p to R(rotation)(p - c) +    *)
(* part xy with c the centre of the cross-section: the centre is mapped    *)
(* onto the part's xy for every rotation, the distance between two         *)
(* transformed pins is the distance between the two relative pins, and the *)
(* input list is left unchanged.  Returned positions are in tenths of the  *)
(* unit of the inputs, so distances squared are a hundredfold.             *)
C15_RigidPlacement ==
    \A i \in 1..Len(calls) :
        LET in == calls[i].pin_positions
            out == calls[i].ret
            Dist2(p, q) == (p[1] - q[1]) * (p[1] - q[1]) + (p[2] - q[2]) * (p[2] - q[2])
        IN  /\ Len(out) = Len(in)
            /\ calls[i].pin_positions_after = in
            /\ \A k \in 1..Len(in) :
                   /\ out[k][1] = (2 * in[k][1] - cfg.largest_side) * calls[i].rotation[1]
                                  - (2 * in[k][2] - cfg.smallest_side) * calls[i].rotation[2]
                                  + 10 * calls[i].xy[1]
                   /\ out[k][2] = (2 * in[k][1] - cfg.largest_side) * calls[i].rotation[2]
                                  + (2 * in[k][2] - cfg.smallest_side) * calls[i].rotation[1]
                                  + 10 * calls[i].xy[2]
                   /\ (2 * in[k][1] = cfg.largest_side /\ 2 * in[k][2] = cfg.smallest_side)
                      => out[k] = <<10 * calls[i].xy[1], 10 * calls[i].xy[2]>>
            /\ \A k, l \in 1..Len(in) : Dist2(out[k], out[l]) = 100 * Dist2(in[k], in[l])

\* The centre and a corner, turned by the angle of the 3-4-5 triangle
C15_Witness ==
    /\ Len(calls) = 1
    /\ calls[1].rotation = <<3, 4>>
    /\ calls[1].xy = <<1250, 1050>>
    /\ Len(calls[1].ret) = 2
    /\ calls[1].pin_positions[1] = <<cfg.largest_side \div 2, cfg.smallest_side \div 2>>
    /\ calls[1].pin_positions[2] = <<0, 0>>
    /\ calls[1].ret[1] = <<12500, 10500>>

----------------------------------------------------------------------------
(* The name of the output file: save_gcode (gcode_modifier.py, lines       *)
(* 168-199)                                                                *)

\* self.filename, the stem of the input file; it holds no "_CL" for the
\* replace of line 199 to remove
\* str() of a length of v tenths of a millimetre, as in "0.1" or "1.0"
TenthsStr(v) == ToString(v \div 10) \o "." \o ToString(v % 10)

\* lines 175-199: the name of the file save_gcode writes for the constants
\* of the composer c
OutputFileName(c) ==
    "A00_pinned_specimen"
    \o "_phl" \o ToString(PinHeightLayers(c))
    \o (IF c.diving_mode THEN "_dv" ELSE "_top")
    \o (IF c.heated_pin THEN "_hp" \o ToString(c.heated_pin_temperature) ELSE "")
    \o (IF c.nozzle_sinking # 0 THEN "_sk" \o TenthsStr(c.nozzle_sinking) ELSE "")
    \o (IF c.nozzle_sinking # 0 THEN "skw" \o ToString(c.nozzle_sinking_wait_time) ELSE "")
    \o (IF c.spiral_mode THEN "_spT" ELSE "")
    \o (IF c.rib_inside_protrusion # 0 THEN "_rb" \o TenthsStr(c.rib_inside_protrusion) ELSE "")
    \o (IF c.rib_clearance # 0 THEN "_rbc" \o TenthsStr(c.rib_clearance) ELSE "")
    \o (IF c.variable_extrusion_enabled /\ c.extrusion_skew_percentage # 0
        THEN "_ve" \o ToString(c.extrusion_skew_percentage) ELSE "")
    \o (IF c.wipe_enabled THEN "_wp" ELSE "")
    \o ".gcode"

\* A run that saves its output: save_gcode called with the constants of cfg
CallSaveGcode ==
    /\ cpc = "save"
    /\ calls = <<>>
    /\ calls' = <<[ret |-> OutputFileName(cfg)]>>
    /\ UNCHANGED composeVars
    /\ UNCHANGED mergeVars

\* The configurations of the fields the name encodes: hp is <<heated_pin,
\* heated_pin_temperature>>, ve is <<variable_extrusion_enabled,
\* extrusion_skew_percentage>>
NameConfigs ==
    { [BaseConfig EXCEPT
          !.pin_height_input = p, !.diving_mode = flags[1],
          !.heated_pin = hp[1], !.heated_pin_temperature = hp[2],
          !.nozzle_sinking = sk[1], !.nozzle_sinking_wait_time = sk[2],
          !.spiral_mode = flags[2],
          !.rib_inside_protrusion = rb[1], !.rib_clearance = rb[2],
          !.variable_extrusion_enabled = ve[1], !.extrusion_skew_percentage = ve[2],
          !.wipe_enabled = flags[3]]
      : p \in 1..MaxPhl, hp \in {<<FALSE, 0>>, <<TRUE, 210>>, <<TRUE, 215>>},
        sk \in {0, 1, 10} \X {0, 5}, rb \in {0, 2} \X {0, 1},
        ve \in BOOLEAN \X {0, 100, 200}, flags \in [1..3 -> BOOLEAN] }

InitName ==
    /\ cfg \in NameConfigs
    /\ staggered_schedule = <<>>
    /\ gcode_lines_per_layer = <<>>
    /\ compose_layer = 0
    /\ error = ""
    /\ cpc = "save"
    /\ MergerIdle
    /\ calls = <<>>

NextName == CallSaveGcode

SpecName == InitName /\ [][NextName]_vars

(* C16: the name save_gcode gave the output of a configuration is not the  *)
(* name of any configuration that differs from it in an encoded field (pin *)
(* height in layers, diving, heated-pin temperature, sinking depth,        *)
(* sinking wait time, spiral flag, rib protrusion, rib clearance, skew     *)
(* percentage, wipe flag), and it is the name of the same configuration.   *)
C16_DistinctNames ==
    LET Encoded(c) == <<PinHeightLayers(c), c.diving_mode, c.heated_pin, c.heated_pin_temperature,
                        c.nozzle_sinking, c.nozzle_sinking_wait_time, c.spiral_mode,
                        c.rib_inside_protrusion, c.rib_clearance, c.extrusion_skew_percentage,
                        c.wipe_enabled>>
    IN  \A i \in 1..Len(calls) :
            /\ calls[i].ret = OutputFileName(cfg)
            /\ \A other \in NameConfigs :
                   Encoded(other) # Encoded(cfg) => OutputFileName(other) # calls[i].ret

(* C17: when spiral mode is requested and the spiral radius (pin radius    *)
(* less half the nozzle diameter, the rib protrusion and the rib           *)
(* clearance) is below 0.2 mm, the synthesis of an occupancy, of full or   *)
(* partial height and in any mode, ends with the spiral-radius error and   *)
(* stores no commands.                                                     *)
C17_SpiralRadiusError ==
    (/\ cfg.spiral_mode
     /\ cfg.pin_dimension - cfg.nozzle_outer_diameter
            - 2 * cfg.rib_inside_protrusion - 2 * cfg.rib_clearance < 4
     /\ cpc \in {"pin_done", "aborted"})
    => error = "ValueError_spiral" /\ gcode_lines_per_layer = <<>>

(* C18: every entry of the schedule keyed at a layer of 1..total_layers    *)
(* has 1 <= height_layers <= pin_height_layers, whatever the fixed start   *)
(* layers and total_layers, and a height below pin_height_layers occurs    *)
(* only for the first or the last occupancy of its pin.                    *)
C18_HeightWithinPinHeight ==
    cpc = "layers" =>
        \A p \in 0..(PinCount(cfg) - 1) :
            \A li \in EntriesOf(p) :
                li[1] \in 1..TotalLayers(cfg) =>
                    /\ 1 <= HeightAt(li)
                    /\ HeightAt(li) <= PinHeightLayers(cfg)
                    /\ HeightAt(li) < PinHeightLayers(cfg) =>
                           \/ \A other \in EntriesOf(p) : li[1] <= other[1]
                           \/ \A other \in EntriesOf(p) : other[1] <= li[1]

(* C19: the commands of every synthesized occupancy begin with a           *)
(* de-retraction, a move that feeds filament (a positive E word), and it   *)
(* stands ahead of the travel move to the pin's (x, y).                    *)
C19_DeRetractionFirst ==
    cpc = "pin_done" =>
        LET lines == gcode_lines_per_layer[compose_layer]
        IN  \E i, j \in 1..Len(lines) :
                /\ i < j
                /\ lines[j].kind = "move_to_xy"
                /\ lines[i].e # <<>>
                /\ lines[i].e[1] > 0
                /\ \A k \in 1..(i - 1) : lines[k].kind \in {"pin_title", "m117"}

(* C20: in the lines of one occupancy the steps that are present stand in  *)
(* the order travel to XY, dive, nozzle sinking (with its dwell), the      *)
(* extruding moves, raise to the layer height, fixed dwell, wipe moves: no *)
(* line of an earlier step follows a line of a later one, and every line   *)
(* that moves filament (an E word other than 0) is an extruding move.      *)
C20_StepsInOrder ==
    cpc = "pin_done" =>
        LET lines == gcode_lines_per_layer[compose_layer]
            Step(kind) ==
                CASE kind \in {"pin_title", "m117"} -> 0
                  [] kind = "move_to_xy" -> 1
                  [] kind = "drop_z" -> 2
                  [] kind \in {"sinking_nozzle", "sinking_wait", "lifting_nozzle"} -> 3
                  [] kind \in {"extruding_pin", "extruding", "one_shot_cone", "cone_blob",
                               "de_pressurizing"} -> 4
                  [] kind = "lifting_from_sunk" -> 5
                  [] kind = "wait" -> 6
                  [] kind \in {"wiping", "spiral_wipe"} -> 7
                  [] kind \in {"end_pin", "blank"} -> 8
        IN  /\ \A i, j \in 1..Len(lines) : i < j => Step(lines[i].kind) <= Step(lines[j].kind)
            /\ \A i \in 1..Len(lines) :
                   (lines[i].e # <<>> /\ lines[i].e[1] # 0) => Step(lines[i].kind) = 4

\* A stepped occupancy with every step: dive, sinking and its dwell, two
\* extruding moves at least, the raise, the dwell and the wipe
C20_Witness ==
    /\ cpc = "pin_done"
    /\ LET lines == gcode_lines_per_layer[compose_layer]
           Has(kind) == \E i \in 1..Len(lines) : lines[i].kind = kind
       IN  /\ Has("move_to_xy") /\ Has("drop_z") /\ Has("sinking_nozzle") /\ Has("sinking_wait")
           /\ Has("lifting_from_sunk") /\ Has("wait") /\ Has("spiral_wipe")
           /\ Cardinality({i \in 1..Len(lines) : lines[i].kind = "extruding"
                                                  /\ lines[i].e # <<>> /\ lines[i].e[1] > 0}) >= 2

(* C21: an occupancy holds a sinking motion exactly when nozzle_sinking is *)
(* not zero and either the height the nozzle stands at is above the        *)
(* sinking depth, or the occupancy is the first of its pin and             *)
(* nozzle_sinking_1st_layer is set; so with nozzle_sinking_1st_layer set   *)
(* a later occupancy that stands no higher than the sinking depth holds    *)
(* no sinking motion.                                                      *)
C21_SinkingExactlyWhen ==
    \A layer \in DOMAIN gcode_lines_per_layer :
        \A i \in Titles(gcode_lines_per_layer[layer]) :
            LET block == gcode_lines_per_layer[layer]
                entry == EntryAt(block, i, staggered_schedule[layer])
                occupancy == OccupancyAt(block, i)
                z == DivedZ(cfg, cfg.layer_height * layer, entry.height_layers * cfg.layer_height)
                exceeds == z > cfg.nozzle_sinking \/ (z = cfg.nozzle_sinking /\ cfg.z_rounds_above)
                first == \A li \in EntriesOf(entry.pin_index) : layer <= li[1]
                sinks == \E k \in 1..Len(occupancy) : occupancy[k].kind = "sinking_nozzle"
            IN  sinks <=> /\ cfg.nozzle_sinking # 0
                          /\ exceeds \/ (first /\ cfg.nozzle_sinking_1st_layer)

(* C22 (as amended): every synthesized occupancy is extruded by exactly    *)
(* one mode.  In diving mode an occupancy as high as the pin holds one     *)
(* one-shot move, whose E word is the length of the occupancy plus         *)
(* pressure_E_length, and no other extruding move; an occupancy of another *)
(* height holds moves of the stepped loop only, one at least.  Without     *)
(* diving mode the occupancy holds one extruding move without a Z word,    *)
(* whose E word is the length of the occupancy, and no other.              *)
C22_OneExtrusionMode ==
    cpc = "pin_done" =>
        LET lines == gcode_lines_per_layer[compose_layer]
            height == staggered_schedule[compose_layer][1].height_layers
            full == RoundDiv(ELenNum(cfg, RivetLikePinVolume(cfg, height * cfg.layer_height)),
                             ELenDen(cfg))
            shots == {i \in 1..Len(lines) : lines[i].kind = "one_shot_cone"}
            steps == {i \in 1..Len(lines) : \/ lines[i].kind = "cone_blob"
                                            \/ lines[i].kind = "extruding" /\ lines[i].z # <<>>}
            tops == {i \in 1..Len(lines) : lines[i].kind = "extruding" /\ lines[i].z = <<>>}
        IN  IF cfg.diving_mode /\ height = PinHeightLayers(cfg)
            THEN /\ Cardinality(shots) = 1 /\ steps = {} /\ tops = {}
                 /\ \A i \in shots : lines[i].e = <<full + cfg.pressure_E_length>>
            ELSE IF cfg.diving_mode
            THEN shots = {} /\ steps # {} /\ tops = {}
            ELSE /\ shots = {} /\ steps = {} /\ Cardinality(tops) = 1
                 /\ \A i \in tops : lines[i].e = <<full>>

(* C22: as C22 (as amended), the E word of the one-shot move being the     *)
(* length of the occupancy (the full extrusion length).                    *)
C22_OneShotCarriesFullLength ==
    cpc = "pin_done" =>
        LET lines == gcode_lines_per_layer[compose_layer]
            height == staggered_schedule[compose_layer][1].height_layers
            full == RoundDiv(ELenNum(cfg, RivetLikePinVolume(cfg, height * cfg.layer_height)),
                             ELenDen(cfg))
        IN  /\ C22_OneExtrusionMode
            /\ (cfg.diving_mode /\ height = PinHeightLayers(cfg)) =>
                   \A i \in 1..Len(lines) : lines[i].kind = "one_shot_cone" => lines[i].e = <<full>>

\* A full-height occupancy of diving mode with a pressure length, extruded
\* by the one-shot move
C22_Witness ==
    /\ cpc = "pin_done"
    /\ cfg.diving_mode
    /\ cfg.pressure_E_length # 0
    /\ staggered_schedule[compose_layer][1].height_layers = PinHeightLayers(cfg)
    /\ \E i \in 1..Len(gcode_lines_per_layer[compose_layer]) :
           gcode_lines_per_layer[compose_layer][i].kind = "one_shot_cone"

----------------------------------------------------------------------------
(* The stepped loop of _generate_pin_gcode under the skewed split          *)

MaxFlow == 2         \* largest flow_ratio

\* The loop of lines 385-455 from pass `step` on, pass by pass: gcode_lines
\* after the pass, the length gcode_command_extrusion_length of the pass as
\* <<numerator, denominator>>, and the exception the pass raises, if any
RECURSIVE ExtrusionTrace(_, _, _, _, _, _, _, _, _)
ExtrusionTrace(c, st, step, n, tot, z, pin_layer_z, pin_height, pin_structure) ==
    IF step > n \/ st.raised # "" THEN <<>>
    ELSE LET next == ExtrusionStep(c, st, step, n, tot, z, pin_layer_z, pin_height, pin_structure)
             info == ExtrusionLengthPerStepBlobInfo(c, c.layer_height, z + step * c.layer_height,
                                                    pin_layer_z, pin_height, pin_structure)
         IN  <<[lines |-> next.lines, raised |-> next.raised,
                len |-> StepLength(c, n, tot, step, info)]>>
             \o ExtrusionTrace(c, next, step + 1, n, tot, z, pin_layer_z, pin_height,
                               pin_structure)

\* The passes of the loop of lines 385-455 in a call of _generate_pin_gcode
\* (none when the call does not reach the loop), with the lines head the
\* loop starts from
ExtrusionSteps(c, layer, current_pin_height, pin_structure) ==
    LET pin_layer_z == c.layer_height * layer
        pin_height == current_pin_height * c.layer_height
        tot_E_pin == IF c.pin_rivet_parameters THEN RivetLikePinVolume(c, pin_height)
                     ELSE NoVolume
        dived == DivedZ(c, pin_layer_z, pin_height)
        head == Prelude(c, pin_layer_z, dived, Sunk(c, dived))
        z == IF Sunk(c, dived) /\ c.nozzle_extrude_sunk THEN dived - c.nozzle_sinking ELSE dived
        reached == /\ tot_E_pin # NoVolume
                   /\ current_pin_height # 0
                   /\ c.diving_mode /\ pin_height # PinHeightMm(c)
                   /\ ~(c.spiral_mode /\ c.pin_dimension - c.nozzle_outer_diameter
                                          - 2 * c.rib_inside_protrusion - 2 * c.rib_clearance < 4)
    IN  [ head |-> head,
          passes |-> IF reached
                     THEN ExtrusionTrace(c, [lines |-> head, E_length_geometrical |-> 0,
                                             blob_E_length |-> 0, raised |-> ""],
                                         1, current_pin_height, tot_E_pin, z, pin_layer_z,
                                         pin_height, pin_structure)
                     ELSE <<>> ]

\* The call of lines 254-256 for the entry of compose_layer, with the passes
\* of its loop
CallGeneratePinGcodeSteps ==
    /\ cpc = "pin"
    /\ calls = <<>>
    /\ \E result \in {GeneratePinGcode(cfg, compose_layer,
                                       staggered_schedule[compose_layer][1].height_layers,
                                       staggered_schedule[compose_layer][1].structure)} :
          IF result.raised # ""
          THEN /\ error' = result.raised
               /\ cpc' = "aborted"
               /\ UNCHANGED gcode_lines_per_layer
          ELSE /\ gcode_lines_per_layer' = (compose_layer :> result.lines)
               /\ cpc' = "pin_done"
               /\ UNCHANGED error
    /\ calls' = <<ExtrusionSteps(cfg, compose_layer,
                                 staggered_schedule[compose_layer][1].height_layers,
                                 staggered_schedule[compose_layer][1].structure)>>
    /\ UNCHANGED <<cfg, staggered_schedule, compose_layer>>
    /\ UNCHANGED mergeVars

(* Specification of the skewed split: one occupancy of every height at     *)
(* every layer, in diving mode without the geometrical model, with a       *)
(* cylinder of 0.2 mm, under every extrusion_skew_percentage of skew (a    *)
(* last factor above, at and below zero, and a first factor below zero),   *)
(* with and without variable extrusion, no_pin_retraction and sinking.     *)
InitSkew ==
    /\ cfg \in { [BaseConfig EXCEPT
                     !.pin_height_input = p, !.specimen_height_mm = MaxTotal,
                     !.cylinder_height = 1, !.flow_ratio = f,
                     !.geometrical_extrusion_enabled = FALSE, !.wipe_enabled = FALSE,
                     !.variable_extrusion_enabled = flags[1], !.no_pin_retraction = flags[2],
                     !.extrusion_skew_percentage = skew,
                     !.nozzle_sinking = s[1], !.nozzle_extrude_sunk = s[2],
                     !.nozzle_sinking_wait_time = s[3]]
                 : p \in 1..MaxPhl, f \in 1..MaxFlow, flags \in [1..2 -> BOOLEAN],
                   skew \in {0 - 100, 0, 50, 100, 150, 200, 300, 500},
                   s \in {<<0, TRUE, 0>>, <<1, TRUE, 5>>, <<1, FALSE, 5>>} }
    /\ \E o \in { o \in (1..MaxTotal) \X (1..MaxTotal) :
                    o[2] <= o[1] /\ (o[2] = o[1] \/ o[2] <= cfg.pin_height_input) } :
          /\ compose_layer = o[1]
          /\ staggered_schedule =
                 (o[1] :> <<[pin_index |-> 0, height_layers |-> o[2], structure |-> <<>>]>>)
    /\ gcode_lines_per_layer = <<>>
    /\ error = ""
    /\ cpc = "structure"
    /\ MergerIdle
    /\ calls = <<>>

NextSkew == CallDeterminePinStructure \/ CallGeneratePinGcodeSteps

SpecSkew == InitSkew /\ [][NextSkew]_vars

(* C23 (as amended): in the linearly skewed split over n steps (variable   *)
(* extrusion without the geometrical model, n at least 2) the skew factor  *)
(* is skew%/100 at the first step, 1 at the midpoint of the step range and *)
(* 2 - skew%/100 at the last step, linear in between; the E word of each   *)
(* step is the even split multiplied by the factor of the step (every step *)
(* is emitted when no_pin_retraction is off).                              *)
C23_SkewFactors ==
    (/\ cpc = "pin_done"
     /\ calls # <<>>
     /\ Len(calls[1].passes) >= 2
     /\ cfg.variable_extrusion_enabled
     /\ ~cfg.no_pin_retraction) =>
        LET n == Len(calls[1].passes)
            p == cfg.extrusion_skew_percentage
            height == staggered_schedule[compose_layer][1].height_layers
            tot == ELenNum(cfg, RivetLikePinVolume(cfg, height * cfg.layer_height))
            lines == gcode_lines_per_layer[compose_layer]
            first == Len(calls[1].head)
            \* the even split multiplied by a / b
            Skewed(a, b) == RoundDiv(tot * a, ELenDen(cfg) * n * b)
        IN  /\ \A k \in 1..n :
                   /\ lines[first + k].kind = "extruding"
                   /\ lines[first + k].e =
                          <<Skewed(p * (n - 1) + (k - 1) * (200 - 2 * p), 100 * (n - 1))>>
            /\ lines[first + 1].e = <<Skewed(p, 100)>>
            /\ lines[first + n].e = <<Skewed(200 - p, 100)>>
            /\ n % 2 = 1 => lines[first + (n + 1) \div 2].e = <<Skewed(1, 1)>>

(* C23: in the linearly skewed split over n steps the E word of the first  *)
(* step is the even split multiplied by skew%/100, that of the step at the *)
(* midpoint is the even split, and that of the last step is the even split *)
(* multiplied by the reciprocal of skew%/100.                              *)
C23_ReciprocalAtLast ==
    (/\ cpc = "pin_done"
     /\ calls # <<>>
     /\ Len(calls[1].passes) >= 2
     /\ cfg.variable_extrusion_enabled
     /\ ~cfg.no_pin_retraction
     /\ cfg.extrusion_skew_percentage > 0) =>
        LET n == Len(calls[1].passes)
            p == cfg.extrusion_skew_percentage
            height == staggered_schedule[compose_layer][1].height_layers
            tot == ELenNum(cfg, RivetLikePinVolume(cfg, height * cfg.layer_height))
            lines == gcode_lines_per_layer[compose_layer]
            first == Len(calls[1].head)
            Skewed(a, b) == RoundDiv(tot * a, ELenDen(cfg) * n * b)
        IN  /\ lines[first + 1].e = <<Skewed(p, 100)>>
            /\ lines[first + n].e = <<Skewed(100, p)>>
            /\ n % 2 = 1 => lines[first + (n + 1) \div 2].e = <<Skewed(1, 1)>>

\* A skewed split over three steps with a skew of 50 %
C23_Witness ==
    /\ cpc = "pin_done"
    /\ calls # <<>>
    /\ Len(calls[1].passes) = 3
    /\ cfg.variable_extrusion_enabled
    /\ ~cfg.no_pin_retraction
    /\ cfg.extrusion_skew_percentage = 50

(* C24: with no_pin_retraction, after every pass of the stepped loop that  *)
(* completes no line of the occupancy carries a negative E word; a pass    *)
(* with a negative length adds no line, and the sum of the E words that    *)
(* remain equals the sum of the lengths of the passes so far when that sum *)
(* is not negative (both in E words of four decimals, so to within one     *)
(* unit of 0.0001 mm per pass).                                            *)
C24_NoNegativeExtrusion ==
    (/\ cpc \in {"pin_done", "aborted"}
     /\ calls # <<>>
     /\ cfg.no_pin_retraction) =>
        LET passes == calls[1].passes
            RECURSIVE SumLen(_)
            SumLen(k) == IF k = 0 THEN 0
                         ELSE RoundDiv(passes[k].len[1], passes[k].len[2]) + SumLen(k - 1)
            LinesAfter(k) == IF k = 0 THEN calls[1].head ELSE passes[k].lines
        IN  \A k \in 1..Len(passes) :
                passes[k].raised = "" =>
                    /\ \A i \in 1..Len(passes[k].lines) :
                           passes[k].lines[i].e = <<>> \/ passes[k].lines[i].e[1] >= 0
                    /\ passes[k].len[1] < 0 => Len(passes[k].lines) <= Len(LinesAfter(k - 1))
                    /\ SumLen(k) >= 0 =>
                           /\ SumE(passes[k].lines) - SumLen(k) <= k
                           /\ SumLen(k) - SumE(passes[k].lines) <= k

\* An occupancy that returns with a pass of negative length taken from the
\* moves before it
C24_Witness ==
    /\ cpc = "pin_done"
    /\ calls # <<>>
    /\ cfg.no_pin_retraction
    /\ \E k \in 1..Len(calls[1].passes) :
           /\ calls[1].passes[k].len[1] < 0
           /\ calls[1].passes[k].raised = ""
           /\ SumE(calls[1].passes[k].lines) > 0

(* C25: with no_pin_retraction, after every pass of negative length the    *)
(* lines the occupancy held ahead of the loop (title, M117, travel, dive,  *)
(* sinking and the "; EXTRUDING PIN" comment) still stand unchanged at the *)
(* head of its lines, also when the length exceeds everything extruded so  *)
(* far; the pass raises nothing.                                           *)
C25_AbsorptionKeepsPrelude ==
    (/\ cpc \in {"pin_done", "aborted"}
     /\ calls # <<>>
     /\ cfg.no_pin_retraction) =>
        \A k \in 1..Len(calls[1].passes) :
            calls[1].passes[k].len[1] < 0 =>
                /\ calls[1].passes[k].raised = ""
                /\ Len(calls[1].passes[k].lines) >= Len(calls[1].head)
                /\ SubSeq(calls[1].passes[k].lines, 1, Len(calls[1].head)) = calls[1].head

(* C26: with cone_blob, in every stepped occupancy that is synthesized     *)
(* without cone_blob, whatever the other flags: the moves of the steps in  *)
(* the lower cone are not emitted one by one, one "cone blob" move with    *)
(* the sum of their E words stands for them, the moves of the other steps  *)
(* are those emitted without cone_blob, and so the E words of the          *)
(* occupancy sum to the same total (to within the four-decimal rounding of *)
(* the summed E words).                                                    *)
C26_BlobCollapses ==
    (/\ cpc \in {"pin_done", "aborted"}
     /\ cfg.cone_blob
     /\ cfg.pin_rivet_parameters
     /\ cfg.diving_mode
     /\ staggered_schedule[compose_layer][1].height_layers # PinHeightLayers(cfg)) =>
        LET entry == staggered_schedule[compose_layer][1]
            plain == GeneratePinGcode([cfg EXCEPT !.cone_blob = FALSE], compose_layer,
                                      entry.height_layers, entry.structure)
            Moves(lines) == SelectSeq(lines, LAMBDA l : l.kind \in {"extruding", "cone_blob"})
            P == Moves(plain.lines)
            B == Moves(gcode_lines_per_layer[compose_layer])
            \* line 618: the height of a step above the foot of the pin
            dived == DivedZ(cfg, cfg.layer_height * compose_layer,
                            entry.height_layers * cfg.layer_height)
            offset == IF Sunk(cfg, dived) /\ cfg.nozzle_extrude_sunk THEN 0
                      ELSE cfg.nozzle_sinking
            m == Cardinality({k \in 1..entry.height_layers :
                                  k * cfg.layer_height + offset <= entry.structure[1][2]})
        IN  plain.raised = "" =>
                /\ cpc = "pin_done"
                /\ m = 0 => B = P
                /\ m >= 1 =>
                       /\ Len(B) = Len(P) - m + 1
                       /\ B[1].kind = "cone_blob"
                       /\ B[1].e[1] - SumE(SubSeq(P, 1, m)) <= m
                       /\ SumE(SubSeq(P, 1, m)) - B[1].e[1] <= m
                       /\ SubSeq(B, 2, Len(B)) = SubSeq(P, m + 1, Len(P))
                /\ SumE(gcode_lines_per_layer[compose_layer]) - SumE(plain.lines) <= m
                /\ SumE(plain.lines) - SumE(gcode_lines_per_layer[compose_layer]) <= m

(* C27: every entry of the schedule with height_layers >= 1 has the three  *)
(* sections lower_cone, cylinder, upper_cone in that order, each of a      *)
(* height between 0 and its nominal height, and the heights sum to         *)
(* height_layers * layer_height; an entry that is not the first of its pin *)
(* is clipped from the top: a section of it is short of its nominal height *)
(* only when the sections above it are empty.                              *)
C27_StructureOfEntry ==
    \A layer \in DOMAIN staggered_schedule :
        \A i \in 1..Len(staggered_schedule[layer]) :
            LET entry == staggered_schedule[layer][i]
                s == entry.structure
                first == \A li \in EntriesOf(entry.pin_index) : layer <= li[1]
            IN  entry.height_layers >= 1 =>
                    /\ Len(s) = 3
                    /\ s[1][1] = "lower_cone" /\ s[2][1] = "cylinder" /\ s[3][1] = "upper_cone"
                    /\ 0 <= s[1][2] /\ s[1][2] <= cfg.cone_height
                    /\ 0 <= s[2][2] /\ s[2][2] <= 2 * cfg.cylinder_height
                    /\ 0 <= s[3][2] /\ s[3][2] <= cfg.cone_height
                    /\ s[1][2] + s[2][2] + s[3][2] = entry.height_layers * cfg.layer_height
                    /\ ~first =>
                           /\ s[3][2] > 0 => s[2][2] = 2 * cfg.cylinder_height
                           /\ s[2][2] + s[3][2] > 0 => s[1][2] = cfg.cone_height

----------------------------------------------------------------------------
(* Specification of the parser: read_gcode_file on every document of at    *)
(* most MaxParseLines lines, each a move without Z, a move with a Z        *)
(* parameter, a comment with the Z marker of the slicer (on a whole and on *)
(* a fractional multiple of the layer height) or a move that holds both.   *)
MaxParseLines == 3

InitParse ==
    /\ gcode_lines \in
           SeqsUpTo({ <<"G", "1", " ", "X", "1">>,
                      <<"G", "1", " ", "Z", "0", ".", "2">>,
                      <<";", "Z", ":", "0", ".", "2">>,
                      <<";", "Z", ":", "0", ".", "4">>,
                      <<"G", "1", " ", "Z", "0", ".", "4", " ", ";", "Z", ":", "0", ".", "4">>,
                      <<";", "Z", ":", "0", ".", "2", "5">> }, MaxParseLines)
    /\ parsed_gcode_lines = <<>>
    /\ pin_gcode_dict = <<>>
    /\ start_layer = 0
    /\ line_idx = 0
    /\ modified_gcode = <<>>
    /\ header_pin_inserted = FALSE
    /\ object_printing_started = FALSE
    /\ last_layer_pinned = FALSE
    /\ modified_gcode_lines = <<>>
    /\ saved_file = <<>>
    /\ layer_height = 10
    /\ mpc = "read"
    /\ ComposerIdle
    /\ calls = <<>>

NextParse == ReadGcodeFile

SpecParse == InitParse /\ [][NextParse]_vars

(* C28: the layer of every parsed line is the integer round(current Z /    *)
(* layer height), the current Z being the value set last, at or before the *)
(* line, by the Z parameter of a command or by a Z marker of a comment.    *)
(* Layers are held in hundredths, Z and the layer height in 0.01 mm.       *)
C28_LayerFollowsCurrentZ ==
    mpc = "merging" =>
        LET RECURSIVE CurrentZ(_)
            CurrentZ(i) ==
                LET rec == parsed_gcode_lines[i]
                    before == IF i = 1 THEN 0 ELSE CurrentZ(i - 1)
                    marked == \E k \in 1..Len(gcode_lines[i]) : ZMatchAt(gcode_lines[i], k)
                    zs == {k \in 1..Len(rec.params) : rec.params[k][1] = "Z"}
                IN  IF marked THEN ZValue(gcode_lines[i])
                    ELSE IF zs # {}
                         THEN ZValue(<<";", "Z", ":">> \o rec.params[CHOOSE k \in zs : TRUE][2])
                         ELSE before
        IN  \A i \in 1..Len(parsed_gcode_lines) :
                parsed_gcode_lines[i].layer = 100 * RoundDiv(CurrentZ(i), layer_height)

(* C29: when the end-of-program marker stands at a layer for which the     *)
(* schedule holds no entry, the merge raises nothing and inserts nothing   *)
(* before the marker; the marker line and every line after it are emitted  *)
(* and the output is saved.                                                *)
C29_EndWithoutEntryIsNoOp ==
    mpc # "merging" =>
        \A k \in 1..Len(parsed_gcode_lines) :
            ( /\ HasMarker(k, END) /\ ~HasMarker(k, LC)
              /\ ~IsKey(parsed_gcode_lines[k].layer, pin_gcode_dict) ) =>
                /\ mpc = "saved"
                /\ line_idx = Len(parsed_gcode_lines)
                /\ Chunks(modified_gcode)[k] = <<>>

(* C30: in diving mode every partial occupancy of one layer or more, one   *)
(* of exactly one layer included, whose structure was determined, is       *)
(* synthesized without error, and its stepped loop gives one extrusion     *)
(* step for each layer of the occupancy.                                   *)
C30_PartialOccupancyCompletes ==
    (cpc = "pin_done" \/ (cpc = "aborted" /\ error # "TypeError")) =>
        LET height == staggered_schedule[compose_layer][1].height_layers
            lines == gcode_lines_per_layer[compose_layer]
        IN  (cfg.diving_mode /\ height >= 1 /\ height # PinHeightLayers(cfg)) =>
                /\ cpc = "pin_done"
                /\ Cardinality({i \in 1..Len(lines) :
                                   \/ lines[i].kind = "cone_blob"
                                   \/ lines[i].kind = "extruding" /\ lines[i].z # <<>>}) = height

====
